---- MODULE Spec2Model ----
(***************************************************************************)
(* Fee-defaulter engine of unpaid_student_extractor.                       *)
(*                                                                         *)
(*   src/fee_extractor.py          FeeDefaulterExtractor                   *)
(*   src/initial_fee_defaulters.py InitialFeeDefaulterExtractor            *)
(*                                                                         *)
(* Tables (pandas DataFrames) are sequences of records, one record per     *)
(* row, in row order.  Text cells are strings; a missing text cell (NaN)   *)
(* is the marker NaN.  A value produced by a coercing parser               *)
(* (pd.to_datetime / pd.to_numeric with errors='coerce') is a sequence of  *)
(* length at most one: <<>> is NaT / NaN, <<v>> is the parsed value.       *)
(* Dates are the integers yyyymmdd, which order as the dates do.           *)
(* Currency amounts are integers.                                          *)
(***************************************************************************)
EXTENDS Integers, Sequences, FiniteSets, TLC

VARIABLES
    today,            \* self.today of both extractors
    contacts_file,    \* rows of Contacts.csv
    invoices_file,    \* rows of Invoice.csv
    payments_file,    \* rows of Customer_Payment.csv
    pc,               \* position of the caller in the pipeline
    contacts_df,      \* FeeDefaulterExtractor.contacts_df   (<<>> before load_data)
    invoices_df,      \* FeeDefaulterExtractor.invoices_df   (<<>> before load_data)
    defaulter_invoices, \* result of process_invoices
    summaries,        \* school -> result of create_student_summary, in call order
    cal,              \* last call of get_due_fees_columns made on its own
    opening_balance_payments, \* attribute: <<>> unset, <<table>> set
    contacts_balance_df,      \* attribute: <<>> unset, <<table>> set; a table is
                              \* its rows and whether it has 'Student Name'
    ob_result,        \* last result of identify_opening_balance_defaulters
    files,            \* report files under output_base_path, in the order written
    prev,             \* today and summaries of the run before the current one
    view,             \* table shown by the app for the chosen tab and view type
    cls,              \* last call of extract_fee_type made on its own
    all_defaulters,   \* extract_initial_fee_defaulters: the list before de-duplication
    defaulters_df     \* last result of extract_initial_fee_defaulters

vars == << today, contacts_file, invoices_file, payments_file, pc, contacts_df,
           invoices_df, defaulter_invoices, summaries, cal,
           opening_balance_payments, contacts_balance_df, ob_result,
           files, prev, view, cls, all_defaulters, defaulters_df >>

-----------------------------------------------------------------------------
(* Generic helpers                                                          *)

NaN == "<NaN>"
None == "<None>"
NaT == << >>

Range(s) == { s[i] : i \in 1..Len(s) }

Min(S) == CHOOSE x \in S : \A y \in S : x <= y

RECURSIVE SumSeq(_)
SumSeq(s) == IF s = << >> THEN 0 ELSE Head(s) + SumSeq(Tail(s))

\* python: sub in s
Contains(sub, s) ==
    \E i \in 1..(Len(s) - Len(sub) + 1) : SubSeq(s, i, i + Len(sub) - 1) = sub

\* python: s.strip() for the blank character
RECURSIVE Strip(_)
Strip(s) ==
    IF Len(s) = 0 THEN s
    ELSE IF SubSeq(s, 1, 1) = " " THEN Strip(SubSeq(s, 2, Len(s)))
    ELSE IF SubSeq(s, Len(s), Len(s)) = " " THEN Strip(SubSeq(s, 1, Len(s) - 1))
    ELSE s

\* datetime.date(y, m, d)
date(y, m, d) == y * 10000 + m * 100 + d

Digits == "0123456789"

IsDigit(c) == \E k \in 1..10 : SubSeq(Digits, k, k) = c

DigitVal(c) == (CHOOSE k \in 1..10 : SubSeq(Digits, k, k) = c) - 1

AllDigits(s) == Len(s) > 0 /\ \A i \in 1..Len(s) : IsDigit(SubSeq(s, i, i))

RECURSIVE NatVal(_)
NatVal(s) ==
    IF Len(s) = 0 THEN 0
    ELSE 10 * NatVal(SubSeq(s, 1, Len(s) - 1)) + DigitVal(SubSeq(s, Len(s), Len(s)))

-----------------------------------------------------------------------------
(* FeeDefaulterExtractor.__init__ : the fixed fee structures                *)

Global == "Excel Global School"
Central == "Excel Central School"

\* dict, in insertion order: <<substring, fee period key>>
excel_global_fees ==
    << << "Initial Academic Fee", "Initial Fee" >>,
       << "Term I Fee (June)", "Term I" >>,
       << "Term II Fee (Sept)", "Term II" >>,
       << "Term III Fee (Jan)", "Term III" >> >>

excel_central_months_Swapped ==
    << "June", "August", "July", "September", "October",
       "November", "December", "January", "February", "March" >>

excel_central_months ==
    << "June", "July", "August", "September", "October",
       "November", "December", "January", "February", "March" >>

\* local dict of get_due_fees_columns: month name -> (month number, year)
month_mapping(m) ==
    CASE m = "June" -> << 6, 2025 >>
      [] m = "July" -> << 7, 2025 >>
      [] m = "August" -> << 8, 2025 >>
      [] m = "September" -> << 9, 2025 >>
      [] m = "October" -> << 10, 2025 >>
      [] m = "November" -> << 11, 2025 >>
      [] m = "December" -> << 12, 2025 >>
      [] m = "January" -> << 1, 2026 >>
      [] m = "February" -> << 2, 2026 >>
      [] m = "March" -> << 3, 2026 >>

-----------------------------------------------------------------------------
(* get_due_fees_columns                                                     *)

MonthKey_FullName(month_name, year) == month_name \o "-" \o ToString(year)

\* f"{month_name[:3]}-{year}"
MonthKey(month_name, year) == SubSeq(month_name, 1, 3) \o "-" \o ToString(year)

\* faulty variant of WalkMonths: a month counts only after its first day
RECURSIVE WalkMonths_Strict(_, _)
WalkMonths_Strict(i, columns) ==
    IF i > Len(excel_central_months) THEN columns
    ELSE LET month_name == excel_central_months[i]
             month_num == month_mapping(month_name)[1]
             year == month_mapping(month_name)[2]
         IN  IF today > date(year, month_num, 1)
             THEN WalkMonths_Strict(i + 1, Append(columns, MonthKey(month_name, year)))
             ELSE columns

\* the for loop over self.excel_central_months, with its break
RECURSIVE WalkMonths(_, _)
WalkMonths(i, columns) ==
    IF i > Len(excel_central_months) THEN columns
    ELSE LET month_name == excel_central_months[i]
             month_num == month_mapping(month_name)[1]
             year == month_mapping(month_name)[2]
         IN  IF today >= date(year, month_num, 1)
             THEN WalkMonths(i + 1, Append(columns, MonthKey(month_name, year)))
             ELSE columns

\* faulty variant of TermDue: the overdue set is ignored
TermDue_DateOnly(start, key, overdue_fee_types) == today >= start

\* one of the three term tests: date reached, or the set is truthy and holds the key
TermDue(start, key, overdue_fee_types) ==
    today >= start \/ (overdue_fee_types # {} /\ key \in overdue_fee_types)

TermColumns(overdue_fee_types) ==
    (IF TermDue(date(2025, 6, 1), "Term I", overdue_fee_types) THEN << "Term I" >> ELSE << >>)
    \o (IF TermDue(date(2025, 9, 1), "Term II", overdue_fee_types) THEN << "Term II" >> ELSE << >>)
    \o (IF TermDue(date(2026, 1, 1), "Term III", overdue_fee_types) THEN << "Term III" >> ELSE << >>)

get_due_fees_columns(school, overdue_fee_types) ==
    IF school = Global THEN << "Initial Fee" >> \o TermColumns(overdue_fee_types)
    ELSE IF school = Central THEN WalkMonths(1, << "Initial Fee" >>)
    ELSE << "Initial Fee" >>

-----------------------------------------------------------------------------
(* extract_fee_type                                                         *)

\* faulty variant of GlobalFeeType: the last matching entry wins
GlobalFeeType_LastMatch(item_name) ==
    LET hits == { i \in 1..Len(excel_global_fees) : Contains(excel_global_fees[i][1], item_name) }
    IN  IF hits = {} THEN None
        ELSE excel_global_fees[CHOOSE x \in hits : \A y \in hits : x >= y][2]

\* lines 135-138: the first entry, in dict order, whose key is in the text
GlobalFeeType(item_name) ==
    LET hits == { i \in 1..Len(excel_global_fees) : Contains(excel_global_fees[i][1], item_name) }
    IN  IF hits = {} THEN None ELSE excel_global_fees[Min(hits)][2]

\* faulty variant of CentralFeeType: the month patterns are tried before the
\* initial fee
CentralFeeType_MonthFirst(item_name) ==
    LET hits == { i \in 1..Len(excel_central_months) :
                    Contains(excel_central_months[i] \o " Monthly Fee", item_name) }
    IN  IF hits # {}
        THEN LET month == excel_central_months[Min(hits)]
                 year == IF month \in { "January", "February", "March" } THEN 2026 ELSE 2025
             IN  SubSeq(month, 1, 3) \o "-" \o ToString(year)
        ELSE IF Contains("Initial Academic Fee", item_name) THEN "Initial Fee"
        ELSE None

\* lines 139-147
CentralFeeType(item_name) ==
    IF Contains("Initial Academic Fee", item_name) THEN "Initial Fee"
    ELSE LET hits == { i \in 1..Len(excel_central_months) :
                          Contains(excel_central_months[i] \o " Monthly Fee", item_name) }
         IN  IF hits = {} THEN None
             ELSE LET month == excel_central_months[Min(hits)]
                      year == IF month \in { "January", "February", "March" } THEN 2026 ELSE 2025
                  IN  SubSeq(month, 1, 3) \o "-" \o ToString(year)

extract_fee_type_DefaultInitial(item_name, school) ==
    LET fee_type == IF item_name = NaN THEN None
                    ELSE IF school = Global THEN GlobalFeeType(item_name)
                    ELSE IF school = Central THEN CentralFeeType(item_name)
                    ELSE None
    IN  IF fee_type = None THEN "Initial Fee" ELSE fee_type

extract_fee_type(item_name, school) ==
    IF item_name = NaN THEN None
    ELSE IF school = Global THEN GlobalFeeType(item_name)
    ELSE IF school = Central THEN CentralFeeType(item_name)
    ELSE None

-----------------------------------------------------------------------------
(* process_invoices                                                         *)

\* pd.to_datetime(cell, errors='coerce') for the cells the model draws:
\* an ISO yyyy-mm-dd text is a date, a missing cell or any other text is NaT
to_datetime(s) ==
    IF s = NaN THEN NaT
    ELSE IF /\ Len(s) = 10
            /\ SubSeq(s, 5, 5) = "-"
            /\ SubSeq(s, 8, 8) = "-"
            /\ AllDigits(SubSeq(s, 1, 4))
            /\ AllDigits(SubSeq(s, 6, 7))
            /\ AllDigits(SubSeq(s, 9, 10))
            /\ NatVal(SubSeq(s, 6, 7)) \in 1..12
            /\ NatVal(SubSeq(s, 9, 10)) \in 1..31
         THEN << date(NatVal(SubSeq(s, 1, 4)), NatVal(SubSeq(s, 6, 7)), NatVal(SubSeq(s, 9, 10))) >>
         ELSE NaT

\* faulty variant of past_due: the comparison is reversed
past_due_Reversed(due) == due # NaT /\ due[1] > today

\* faulty variant of past_due: an invoice due today counts as past due
past_due_Inclusive(due) == due # NaT /\ due[1] <= today

\* defaulter_invoices['Due Date'] < today_datetime : a comparison with NaT is False
past_due(due) == due # NaT /\ due[1] < today

\* .fillna('')
fillna_str(x) == IF x = NaN THEN "" ELSE x

RECURSIVE Concat(_)
Concat(ss) == IF ss = << >> THEN << >> ELSE Head(ss) \o Concat(Tail(ss))

\* lines 90-92: status isin ['Overdue', 'PartiallyPaid']
StatusFilter(invoices) ==
    SelectSeq(invoices, LAMBDA r : r.InvoiceStatus \in { "Overdue", "PartiallyPaid" })

\* faulty variant of DueDateFilter: the due date is required of Overdue rows too
DueDateFilter_AllPastDue(invoices) ==
    LET converted == [ i \in 1..Len(invoices) |->
                         [ invoices[i] EXCEPT !.DueDate = to_datetime(invoices[i].DueDate) ] ]
    IN  SelectSeq(converted, LAMBDA r : r.DueDate # NaT /\ r.DueDate[1] < today)

\* lines 95-106: Due Date coerced, then Overdue | (PartiallyPaid & past due)
\* (the invoices table carries its Due Date column, so the branch of line 95 is taken)
DueDateFilter(invoices) ==
    LET converted == [ i \in 1..Len(invoices) |->
                         [ invoices[i] EXCEPT !.DueDate = to_datetime(invoices[i].DueDate) ] ]
    IN  SelectSeq(converted,
                  LAMBDA r : \/ r.InvoiceStatus = "Overdue"
                             \/ (r.InvoiceStatus = "PartiallyPaid" /\ past_due(r.DueDate)))

\* one row of the merge, with the two derived columns of lines 119-124
Joined(inv, first, last, code) ==
    [ CustomerID |-> inv.CustomerID, School |-> inv.School, Grade |-> inv.Grade,
      Section |-> inv.Section, ItemName |-> inv.ItemName,
      InvoiceStatus |-> inv.InvoiceStatus, Balance |-> inv.Balance,
      DueDate |-> inv.DueDate,
      StudentName |-> Strip(fillna_str(first) \o " " \o fillna_str(last)),
      EnrollmentNo |-> fillna_str(code) ]

MergeContacts_Inner(invoices, contacts) ==
    Concat([ i \in 1..Len(invoices) |->
               LET m == SelectSeq(contacts, LAMBDA c : c.ContactID = invoices[i].CustomerID)
               IN  [ j \in 1..Len(m) |->
                       Joined(invoices[i], m[j].FirstName, m[j].LastName, m[j].EnrollmentCode) ] ])

\* lines 111-116: merge(how='left') keeps the left order; a left row appears once
\* per matching contact row, or once with missing contact cells when none matches
MergeContacts(invoices, contacts) ==
    Concat([ i \in 1..Len(invoices) |->
               LET m == SelectSeq(contacts, LAMBDA c : c.ContactID = invoices[i].CustomerID)
               IN  IF m = << >> THEN << Joined(invoices[i], NaN, NaN, NaN) >>
                   ELSE [ j \in 1..Len(m) |->
                            Joined(invoices[i], m[j].FirstName, m[j].LastName, m[j].EnrollmentCode) ] ])

process_invoices == MergeContacts(DueDateFilter(StatusFilter(invoices_df)), contacts_df)

-----------------------------------------------------------------------------
(* create_student_summary                                                   *)

\* code-point order of the characters the tables use
Ascii == " ()-0123456789ABCDEFGHIJKLMNOPQRSTUVWXYZabcdefghijklmnopqrstuvwxyz"

CharRank(c) == CHOOSE k \in 1..Len(Ascii) : SubSeq(Ascii, k, k) = c

\* python: a < b on str
RECURSIVE StrLess(_, _)
StrLess(a, b) ==
    IF a = b \/ Len(b) = 0 THEN FALSE
    ELSE IF Len(a) = 0 THEN TRUE
    ELSE IF SubSeq(a, 1, 1) = SubSeq(b, 1, 1)
         THEN StrLess(SubSeq(a, 2, Len(a)), SubSeq(b, 2, Len(b)))
    ELSE CharRank(SubSeq(a, 1, 1)) < CharRank(SubSeq(b, 1, 1))

\* order of the group keys (Customer ID, Grade, Section)
KeyLeq(k, o) ==
    \/ k = o
    \/ k[1] < o[1]
    \/ k[1] = o[1] /\ StrLess(k[2], o[2])
    \/ k[1] = o[1] /\ k[2] = o[2] /\ (k[3] = o[3] \/ StrLess(k[3], o[3]))

RECURSIVE SortKeys(_)
SortKeys(S) ==
    IF S = {} THEN << >>
    ELSE LET m == CHOOSE k \in S : \A o \in S : KeyLeq(k, o)
         IN  << m >> \o SortKeys(S \ { m })

\* groupby(['Customer ID', 'Grade', 'Section']): sorted keys; a row with a
\* missing key cell belongs to no group (dropna=True)
GroupKeys(rows) ==
    SortKeys({ << rows[i].CustomerID, rows[i].Grade, rows[i].Section >> :
                 i \in { j \in 1..Len(rows) : rows[j].Grade # NaN /\ rows[j].Section # NaN } })

GroupOf_WholeStudent(rows, key) ==
    SelectSeq(rows, LAMBDA r : r.CustomerID = key[1])

GroupOf(rows, key) ==
    SelectSeq(rows, LAMBDA r : r.CustomerID = key[1] /\ r.Grade = key[2] /\ r.Section = key[3])

\* df[df['Fee Type'] == col]
OfFeeType(rows, school, col) ==
    SelectSeq(rows, LAMBDA r : extract_fee_type(r.ItemName, school) = col)

\* ['Balance'].sum()
BalanceSum(rows) == SumSeq([ i \in 1..Len(rows) |-> rows[i].Balance ])

\* faulty variant of FeeValue: the balance of all invoices is reported as owed
FeeValue_TotalAsAmount(group, student_all_invoices, school, col) ==
    LET overdue_amount == BalanceSum(OfFeeType(group, school, col))
        all_fee_invoices == OfFeeType(student_all_invoices, school, col)
        total_balance == BalanceSum(all_fee_invoices)
        has_closed == \E i \in 1..Len(all_fee_invoices) :
                          all_fee_invoices[i].InvoiceStatus \in { "Closed", "Paid" }
    IN  IF Len(all_fee_invoices) > 0
        THEN IF overdue_amount > 0 THEN total_balance
             ELSE IF has_closed \/ total_balance = 0 THEN -1
             ELSE 0
        ELSE 0

\* faulty variant of FeeValue: a Closed or Paid invoice does not make a period paid
FeeValue_NoClosedCheck(group, student_all_invoices, school, col) ==
    LET overdue_amount == BalanceSum(OfFeeType(group, school, col))
        all_fee_invoices == OfFeeType(student_all_invoices, school, col)
        total_balance == BalanceSum(all_fee_invoices)
    IN  IF Len(all_fee_invoices) > 0
        THEN IF overdue_amount > 0 THEN overdue_amount
             ELSE IF total_balance = 0 THEN -1
             ELSE 0
        ELSE 0

\* faulty variant of FeeValue: every invoiced period that is not owed is paid
FeeValue_PaidUnlessOverdue(group, student_all_invoices, school, col) ==
    LET overdue_amount == BalanceSum(OfFeeType(group, school, col))
        all_fee_invoices == OfFeeType(student_all_invoices, school, col)
    IN  IF Len(all_fee_invoices) > 0
        THEN IF overdue_amount > 0 THEN overdue_amount ELSE -1
        ELSE 0

\* lines 208-229: the value of one fee column of one group
FeeValue_SumWhenNotSettled(group, student_all_invoices, school, col) ==
    LET overdue_amount == BalanceSum(OfFeeType(group, school, col))
        all_fee_invoices == OfFeeType(student_all_invoices, school, col)
        total_balance == BalanceSum(all_fee_invoices)
        has_closed == \E i \in 1..Len(all_fee_invoices) :
                          all_fee_invoices[i].InvoiceStatus \in { "Closed", "Paid" }
    IN  IF all_fee_invoices # << >>
        THEN IF overdue_amount > 0 THEN overdue_amount
             ELSE IF has_closed \/ total_balance = 0 THEN 0 - 1
             ELSE overdue_amount
        ELSE 0

FeeValue(group, student_all_invoices, school, col) ==
    LET overdue_amount == BalanceSum(OfFeeType(group, school, col))
        all_fee_invoices == OfFeeType(student_all_invoices, school, col)
        total_balance == BalanceSum(all_fee_invoices)
        has_closed == \E i \in 1..Len(all_fee_invoices) :
                          all_fee_invoices[i].InvoiceStatus \in { "Closed", "Paid" }
    IN  IF Len(all_fee_invoices) > 0
        THEN IF overdue_amount > 0 THEN overdue_amount
             ELSE IF has_closed \/ total_balance = 0 THEN -1
             ELSE 0
        ELSE 0

\* max(0, x)
Max0(x) == IF x > 0 THEN x ELSE 0

\* faulty variant of TotalOutstanding: the raw values are added, sentinel included
TotalOutstanding_NoMax(fees, due_columns) ==
    SumSeq([ i \in 1..Len(due_columns) |-> fees[due_columns[i]] ])

\* lines 232-234
TotalOutstanding(fees, due_columns) ==
    SumSeq([ i \in 1..Len(due_columns) |-> Max0(fees[due_columns[i]]) ])

\* lines 192-236: one record of the summary
StudentData(key, group, student_all_invoices, school, due_columns) ==
    LET fees == [ col \in Range(due_columns) |->
                    FeeValue(group, student_all_invoices, school, col) ]
    IN  [ CustomerID |-> key[1],
          StudentName |-> group[1].StudentName,
          EnrollmentNo |-> group[1].EnrollmentNo,
          Grade |-> key[2],
          Section |-> IF key[3] # NaN THEN key[3] ELSE "General",
          Fees |-> fees,
          TotalOutstanding |-> TotalOutstanding(fees, due_columns) ]

\* overdue_fee_types of lines 164-169
OverdueFeeTypes(school_invoices, school) ==
    { extract_fee_type(school_invoices[i].ItemName, school) : i \in 1..Len(school_invoices) }
        \ { None }

\* the DataFrame returned: its fee columns and its rows (both empty for pd.DataFrame())
create_student_summary(defaulters, school) ==
    LET school_invoices == SelectSeq(defaulters, LAMBDA r : r.School = school)
        due_columns == get_due_fees_columns(school, OverdueFeeTypes(school_invoices, school))
        defaulter_ids == { school_invoices[i].CustomerID : i \in 1..Len(school_invoices) }
        all_invoices_for_defaulters ==
            SelectSeq(invoices_df, LAMBDA r : r.CustomerID \in defaulter_ids /\ r.School = school)
        keys == GroupKeys(school_invoices)
        grouped == [ i \in 1..Len(keys) |->
                       StudentData(keys[i], GroupOf(school_invoices, keys[i]),
                                   SelectSeq(all_invoices_for_defaulters,
                                             LAMBDA r : r.CustomerID = keys[i][1]),
                                   school, due_columns) ]
    IN  IF Len(school_invoices) = 0 \/ Len(grouped) = 0
        THEN [ due_columns |-> << >>, rows |-> << >> ]
        ELSE [ due_columns |-> due_columns, rows |-> grouped ]

-----------------------------------------------------------------------------
(* create_teacher_report, create_accounts_report, save_reports              *)

\* line 248: 'Unpaid' if x > 0 else ('Paid' if x == -1 else '')
TeacherCell(x) == IF x > 0 THEN "Unpaid" ELSE IF x = 0 - 1 THEN "Paid" ELSE ""

\* line 264: 0 if x == -1 else x
AccountsCell(x) == IF x = 0 - 1 THEN 0 ELSE x

\* stable sort of rows on 'Student Name' (the names here are never missing)
RECURSIVE InsertByName(_, _)
InsertByName(sorted, r) ==
    IF sorted = << >> THEN << r >>
    ELSE IF StrLess(r.StudentName, Head(sorted).StudentName)
         THEN << r >> \o sorted
         ELSE << Head(sorted) >> \o InsertByName(Tail(sorted), r)

RECURSIVE SortByName(_)
SortByName(rows) ==
    IF rows = << >> THEN << >>
    ELSE InsertByName(SortByName(SubSeq(rows, 1, Len(rows) - 1)), rows[Len(rows)])

\* lines 240-251, for the rows of one (grade, section) group
create_teacher_report(summary_rows, due_columns) ==
    [ i \in 1..Len(summary_rows) |->
        [ StudentName |-> summary_rows[i].StudentName,
          EnrollmentNo |-> summary_rows[i].EnrollmentNo,
          Grade |-> summary_rows[i].Grade,
          Section |-> summary_rows[i].Section,
          Fees |-> [ col \in Range(due_columns) |-> TeacherCell(summary_rows[i].Fees[col]) ] ] ]

\* lines 253-266: every column that is not an identity column or Total
\* Outstanding is a fee column
create_accounts_report(summary_rows) ==
    [ i \in 1..Len(summary_rows) |->
        [ summary_rows[i] EXCEPT
            !.Fees = [ col \in DOMAIN summary_rows[i].Fees |->
                         AccountsCell(summary_rows[i].Fees[col]) ] ] ]

\* str(x).replace('/', '_').strip()
RECURSIVE ReplaceSlash(_)
ReplaceSlash(s) ==
    IF ~Contains("/", s) THEN s
    ELSE (IF SubSeq(s, 1, 1) = "/" THEN "_" ELSE SubSeq(s, 1, 1))
         \o ReplaceSlash(SubSeq(s, 2, Len(s)))

Clean(s) == Strip(ReplaceSlash(s))

\* order of the group keys (Grade, Section)
PairLeq(k, o) ==
    \/ k = o
    \/ StrLess(k[1], o[1])
    \/ k[1] = o[1] /\ (k[2] = o[2] \/ StrLess(k[2], o[2]))

RECURSIVE SortPairs(_)
SortPairs(S) ==
    IF S = {} THEN << >>
    ELSE LET m == CHOOSE k \in S : \A o \in S : PairLeq(k, o)
         IN  << m >> \o SortPairs(S \ { m })

\* to_csv(path): a file of the same path is replaced, a new one is added
WriteFile(fs, f) ==
    IF \E i \in 1..Len(fs) : fs[i].path = f.path
    THEN [ i \in 1..Len(fs) |-> IF fs[i].path = f.path THEN f ELSE fs[i] ]
    ELSE Append(fs, f)

\* lines 281-311: the teacher file and the accounts file of one group
GroupFiles(school, pair, summary_rows, due_columns) ==
    LET group_df == SelectSeq(summary_rows,
                              LAMBDA r : r.Grade = pair[1] /\ r.Section = pair[2])
        grade_clean == Clean(pair[1])
        section_clean == Clean(pair[2])
        school_prefix == IF school = Global THEN "EGS" ELSE "ECS"
        filename == school_prefix \o " " \o grade_clean \o " " \o section_clean \o ".csv"
    IN  << [ path |-> << "teachers", school, grade_clean, filename >>,
             due_columns |-> due_columns,
             rows |-> SortByName(create_teacher_report(group_df, due_columns)) ],
           [ path |-> << "accounts", school, grade_clean, filename >>,
             due_columns |-> due_columns,
             rows |-> SortByName(create_accounts_report(group_df)) ] >>

\* the writes save_reports makes, in order (none for an empty summary)
ReportWrites(summary_df, school) ==
    LET pairs == SortPairs({ << summary_df.rows[i].Grade, summary_df.rows[i].Section >> :
                               i \in 1..Len(summary_df.rows) })
    IN  Concat([ g \in 1..Len(pairs) |->
                   GroupFiles(school, pairs[g], summary_df.rows, summary_df.due_columns) ])

RECURSIVE WriteAll(_, _)
WriteAll(fs, writes) ==
    IF writes = << >> THEN fs ELSE WriteAll(WriteFile(fs, Head(writes)), Tail(writes))

\* lines 268-311
save_reports(fs, summary_df, school) == WriteAll(fs, ReportWrites(summary_df, school))

-----------------------------------------------------------------------------
(* app.py: the defaulter table of a school tab                              *)

\* the currency sign format_indian_currency puts first, in ASCII
CurrencySign == "Rs "

\* commas every two digits, from the right
RECURSIVE GroupTwos(_)
GroupTwos(s) ==
    IF Len(s) <= 2 THEN s
    ELSE GroupTwos(SubSeq(s, 1, Len(s) - 2)) \o "," \o SubSeq(s, Len(s) - 1, Len(s))

\* app.py lines 14-33, for amount >= 0: a comma before the last three digits,
\* then one every two digits
format_indian_currency(amount) ==
    LET s == ToString(amount)
    IN  CurrencySign \o
        (IF Len(s) <= 3 THEN s
         ELSE GroupTwos(SubSeq(s, 1, Len(s) - 3)) \o "," \o SubSeq(s, Len(s) - 2, Len(s)))

UpperCase == "ABCDEFGHIJKLMNOPQRSTUVWXYZ"
LowerCase == "abcdefghijklmnopqrstuvwxyz"

\* str.lower()
RECURSIVE Lower(_)
Lower(s) ==
    IF Len(s) = 0 THEN s
    ELSE LET c == SubSeq(s, 1, 1)
         IN  (IF \E k \in 1..26 : SubSeq(UpperCase, k, k) = c
              THEN LET k == CHOOSE k \in 1..26 : SubSeq(UpperCase, k, k) = c
                   IN  SubSeq(LowerCase, k, k)
              ELSE c)
             \o Lower(SubSeq(s, 2, Len(s)))

\* app.py lines 705-716: the search box and the two select boxes
FilterRows(summary_rows, search_query, selected_grade, selected_section) ==
    SelectSeq(summary_rows,
              LAMBDA r : /\ search_query # "" => Contains(Lower(search_query), Lower(r.StudentName))
                         /\ selected_grade # "All" => r.Grade = selected_grade
                         /\ selected_section # "All" => r.Section = selected_section)

\* app.py lines 729 and 833: 'Unpaid' if x > 0 else 'Paid'
AppTeacherCell(x) == IF x > 0 THEN "Unpaid" ELSE "Paid"

\* app.py lines 741 and 845
AppCurrencyCell(x) ==
    IF x > 0 THEN format_indian_currency(x)
    ELSE IF x = 0 THEN CurrencySign \o "0"
    ELSE ""

\* app.py lines 719-731 and 823-835
TeachersView(filtered_data, due_columns) ==
    [ i \in 1..Len(filtered_data) |->
        [ StudentName |-> filtered_data[i].StudentName,
          EnrollmentNo |-> filtered_data[i].EnrollmentNo,
          Grade |-> filtered_data[i].Grade,
          Section |-> filtered_data[i].Section,
          Fees |-> [ col \in Range(due_columns) |-> AppTeacherCell(filtered_data[i].Fees[col]) ] ] ]

\* app.py lines 733-743 and 836-847: the fee columns and Total Outstanding are
\* the currency columns, and each of them is numeric
AccountsView(filtered_data) ==
    [ i \in 1..Len(filtered_data) |->
        [ filtered_data[i] EXCEPT
            !.Fees = [ col \in DOMAIN filtered_data[i].Fees |->
                         AppCurrencyCell(filtered_data[i].Fees[col]) ],
            !.TotalOutstanding = AppCurrencyCell(filtered_data[i].TotalOutstanding) ] ]

-----------------------------------------------------------------------------
(* InitialFeeDefaulterExtractor: the opening-balance reconciler             *)

\* pd.to_numeric(cell, errors='coerce') for the cells the model draws:
\* an optionally signed run of digits is a number, anything else is NaN
to_numeric(s) ==
    IF s = NaN THEN << >>
    ELSE IF AllDigits(s) THEN << NatVal(s) >>
    ELSE IF Len(s) > 1 /\ SubSeq(s, 1, 1) = "-" /\ AllDigits(SubSeq(s, 2, Len(s)))
         THEN << 0 - NatVal(SubSeq(s, 2, Len(s))) >>
    ELSE << >>

\* .sum() of a coerced column: NaN cells are skipped
SumSkipNaN(cells) == SumSeq(Concat(cells))

RECURSIVE SortInts(_)
SortInts(S) == IF S = {} THEN << >> ELSE << Min(S) >> \o SortInts(S \ { Min(S) })

\* lines 28-46: the table load_customer_payments stores
OpeningBalancePayments(payments) ==
    LET opening == SelectSeq(payments, LAMBDA r : r.InvoiceNumber = "Customer opening balance")
        ids == SortInts({ opening[i].CustomerID : i \in 1..Len(opening) })
    IN  [ k \in 1..Len(ids) |->
            LET mine == SelectSeq(opening, LAMBDA r : r.CustomerID = ids[k])
            IN  [ CustomerID |-> ids[k],
                  TotalPaidOpeningBalance |->
                      SumSkipNaN([ i \in 1..Len(mine) |-> to_numeric(mine[i].AmountApplied) ]),
                  CustomerName |-> mine[1].CustomerName ] ]

\* Series + ' ' + Series: missing if either cell is missing
NameOrNaN(first, last) == IF first = NaN \/ last = NaN THEN NaN ELSE first \o " " \o last

\* lines 61-77: the table load_contacts_with_opening_balance stores
ContactsWithBalance(contacts) ==
    LET numeric == [ i \in 1..Len(contacts) |->
                       [ ContactID |-> contacts[i].ContactID,
                         FirstName |-> contacts[i].FirstName,
                         LastName |-> contacts[i].LastName,
                         School |-> contacts[i].School,
                         Grade |-> contacts[i].Grade,
                         Section |-> contacts[i].Section,
                         OpeningBalance |-> to_numeric(contacts[i].OpeningBalance),
                         StudentName |-> NameOrNaN(contacts[i].FirstName, contacts[i].LastName) ] ]
    IN  SelectSeq(numeric, LAMBDA r : r.OpeningBalance # << >> /\ r.OpeningBalance[1] > 0)

\* read_csv gives a column float64 when the file has rows and every cell of
\* the column is empty; line 77 then adds a float64 Series and a str
FirstNameIsFloat(contacts) ==
    contacts # << >> /\ \A i \in 1..Len(contacts) : contacts[i].FirstName = NaN

\* lines 72-77: the attribute is assigned before 'Student Name' is added, so
\* the TypeError of line 77 leaves the table stored without that column
ContactsTable(contacts) ==
    IF FirstNameIsFloat(contacts)
    THEN [ student_name |-> FALSE,
           rows |-> [ i \in 1..Len(ContactsWithBalance(contacts)) |->
                        [ f \in DOMAIN ContactsWithBalance(contacts)[i] \ { "StudentName" } |->
                            ContactsWithBalance(contacts)[i][f] ] ] ]
    ELSE [ student_name |-> TRUE, rows |-> ContactsWithBalance(contacts) ]

\* return value of load_contacts_with_opening_balance
ContactsLoadSucceeds == contacts_file.ok /\ ~FirstNameIsFloat(contacts_file.rows)

\* lines 95-103: left merge on Contact ID = CustomerID, then fillna(0)
TotalPaid(contact_id, paid) ==
    LET m == SelectSeq(paid, LAMBDA r : r.CustomerID = contact_id)
    IN  IF m = << >> THEN 0 ELSE m[1].TotalPaidOpeningBalance

\* lines 106-120 for one merged row
OpeningRow(c, paid) ==
    [ ContactID |-> c.ContactID, StudentName |-> c.StudentName, School |-> c.School,
      Grade |-> c.Grade, Section |-> IF c.Section = NaN THEN "-" ELSE c.Section,
      OpeningBalance |-> c.OpeningBalance[1],
      TotalPaidOpeningBalance |-> TotalPaid(c.ContactID, paid),
      RemainingOpeningBalance |-> c.OpeningBalance[1] - TotalPaid(c.ContactID, paid),
      Status |-> "Opening Balance Not Fully Paid" ]

\* faulty variant of RemainingPositive: a fully paid opening balance is kept
RemainingNonNegative(r) == r.RemainingOpeningBalance >= 0

\* lines 109-111: the rows kept
RemainingPositive(r) == r.RemainingOpeningBalance > 0

\* lines 114-117: selecting 'Student Name' from a table stored without it
\* raises KeyError
identify_raises ==
    /\ contacts_balance_df # << >>
    /\ opening_balance_payments # << >>
    /\ ~contacts_balance_df[1].student_name

identify_opening_balance_defaulters ==
    IF contacts_balance_df = << >> \/ opening_balance_payments = << >> THEN << >>
    ELSE IF identify_raises THEN << >>
    ELSE LET left == contacts_balance_df[1].rows
             paid == opening_balance_payments[1]
             merged == Concat([ i \in 1..Len(left) |->
                           LET n == Len(SelectSeq(paid, LAMBDA r : r.CustomerID = left[i].ContactID))
                           IN  [ j \in 1..(IF n = 0 THEN 1 ELSE n) |-> OpeningRow(left[i], paid) ] ])
         IN  SelectSeq(merged, RemainingPositive)

-----------------------------------------------------------------------------
(* InitialFeeDefaulterExtractor.extract_initial_fee_defaulters              *)

\* groupby(['Customer ID', 'Grade', 'Section']) after Section.fillna('-'):
\* a row with a missing Grade belongs to no group
InitialGroupKeys(rows) ==
    SortKeys({ << rows[i].CustomerID, rows[i].Grade, rows[i].Section >> :
                 i \in { j \in 1..Len(rows) : rows[j].Grade # NaN } })

\* lines 161-235: the records one school adds to all_defaulters
InitialFeeDefaultersOf(defaulters, invoices, school) ==
    LET school_invoices == SelectSeq(defaulters, LAMBDA r : r.School = school)
        unpaid == OfFeeType(school_invoices, school, "Initial Fee")
        initial_fee_defaulters ==
            [ i \in 1..Len(unpaid) |->
                [ unpaid[i] EXCEPT !.Section = IF @ = NaN THEN "-" ELSE @ ] ]
        defaulter_ids == { unpaid[i].CustomerID : i \in 1..Len(unpaid) }
        all_invoices_for_defaulters ==
            SelectSeq(invoices, LAMBDA r : r.CustomerID \in defaulter_ids /\ r.School = school)
        keys == InitialGroupKeys(initial_fee_defaulters)
        Record(key) ==
            LET group == GroupOf(initial_fee_defaulters, key)
                initial_fee_invoices ==
                    OfFeeType(SelectSeq(all_invoices_for_defaulters,
                                        LAMBDA r : r.CustomerID = key[1]),
                              school, "Initial Fee")
                has_closed == \E i \in 1..Len(initial_fee_invoices) :
                                  initial_fee_invoices[i].InvoiceStatus \in { "Closed", "Paid" }
            IN  IF Len(initial_fee_invoices) > 0 /\ ~has_closed
                THEN << [ CustomerID |-> key[1],
                          StudentName |-> group[1].StudentName,
                          School |-> school,
                          Grade |-> key[2],
                          Section |-> key[3],
                          Status |-> "Initial Fee Not Paid",
                          OpeningBalance |-> 0,
                          TotalPaidOpeningBalance |-> 0,
                          RemainingOpeningBalance |-> 0 ] >>
                ELSE << >>
    IN  Concat([ k \in 1..Len(keys) |-> Record(keys[k]) ])

\* lines 238-255: the opening balance defaulters in the layout of the report
FormattedOpeningBalanceDefaulters(opening_balance_defaulters) ==
    [ i \in 1..Len(opening_balance_defaulters) |->
        LET row == opening_balance_defaulters[i]
        IN  [ CustomerID |-> row.ContactID,
              StudentName |-> row.StudentName,
              School |-> row.School,
              Grade |-> row.Grade,
              Section |-> row.Section,
              Status |-> row.Status,
              OpeningBalance |-> row.OpeningBalance,
              TotalPaidOpeningBalance |-> row.TotalPaidOpeningBalance,
              RemainingOpeningBalance |-> row.RemainingOpeningBalance ] ]

\* faulty variant of drop_duplicates: the last record of a customer is kept
drop_duplicates_KeepLast(rows) ==
    LET keep == { i \in 1..Len(rows) :
                    \A j \in (i + 1)..Len(rows) : rows[j].CustomerID # rows[i].CustomerID }
    IN  Concat([ i \in 1..Len(rows) |-> IF i \in keep THEN << rows[i] >> ELSE << >> ])

\* line 263: drop_duplicates(subset=['Customer ID'], keep='first')
drop_duplicates(rows) ==
    LET keep == { i \in 1..Len(rows) :
                    \A j \in 1..(i - 1) : rows[j].CustomerID # rows[i].CustomerID }
    IN  Concat([ i \in 1..Len(rows) |-> IF i \in keep THEN << rows[i] >> ELSE << >> ])

\* order of two cells of a text column: a missing cell sorts last
CellLess(a, b) == a # NaN /\ (b = NaN \/ StrLess(a, b))

\* order of two rows on (School, Grade, Section, Student Name)
ReportLess(r, o) ==
    \/ CellLess(r.School, o.School)
    \/ r.School = o.School /\ CellLess(r.Grade, o.Grade)
    \/ r.School = o.School /\ r.Grade = o.Grade /\ CellLess(r.Section, o.Section)
    \/ /\ r.School = o.School /\ r.Grade = o.Grade /\ r.Section = o.Section
       /\ CellLess(r.StudentName, o.StudentName)

RECURSIVE InsertReportRow(_, _)
InsertReportRow(sorted, r) ==
    IF sorted = << >> THEN << r >>
    ELSE IF ReportLess(r, Head(sorted)) THEN << r >> \o sorted
    ELSE << Head(sorted) >> \o InsertReportRow(Tail(sorted), r)

\* line 265: sort_values on several columns is a stable sort
RECURSIVE sort_values(_)
sort_values(rows) ==
    IF rows = << >> THEN << >>
    ELSE InsertReportRow(sort_values(SubSeq(rows, 1, Len(rows) - 1)), rows[Len(rows)])

-----------------------------------------------------------------------------
(* The inputs the model draws                                               *)

MaxInvoices == 2
MaxContacts == 2
MaxPayments == 2

RECURSIVE SeqsOfLen(_, _)
SeqsOfLen(S, n) ==
    IF n = 0 THEN { << >> }
    ELSE { Append(t, x) : t \in SeqsOfLen(S, n - 1), x \in S }

SeqsUpTo(S, n) == UNION { SeqsOfLen(S, k) : k \in 0..n }

Invoice(c, school, grade, section, item, status, balance, due) ==
    [ CustomerID |-> c, School |-> school, Grade |-> grade, Section |-> section,
      ItemName |-> item, InvoiceStatus |-> status, Balance |-> balance, DueDate |-> due ]

Contact(id, first, last, code, school, grade, section, opening) ==
    [ ContactID |-> id, FirstName |-> first, LastName |-> last, EnrollmentCode |-> code,
      School |-> school, Grade |-> grade, Section |-> section, OpeningBalance |-> opening ]

Payment(c, number, amount, name) ==
    [ CustomerID |-> c, InvoiceNumber |-> number, AmountApplied |-> amount,
      CustomerName |-> name ]

Schools == << Global, Central >>

\* invoice rows: an Overdue invoice of every balance sign for both fee periods
\* of the term-based school, and settled or not-yet-due invoices next to them
RowsStatus ==
    { Invoice(1, Global, "Grade 1", "A", item, "Overdue", balance, "2025-07-14") :
        item \in { "Initial Academic Fee", "Term III Fee (Jan)" },
        balance \in { 5000, 0, 0 - 5000 } }
    \cup
    { Invoice(1, Global, "Grade 1", "A", "Initial Academic Fee", status, balance, "2025-07-14") :
        status \in { "Closed", "Sent" }, balance \in { 5000, 0 } }

\* invoice rows: both customers, both schools, both naming conventions
RowsSchool ==
    { Invoice(c, school, "Grade 1", "A", item, "Overdue", 5000, "2025-07-14") :
        c \in { 1, 2 }, school \in Range(Schools),
        item \in { "Initial Academic Fee", "July Monthly Fee" } }

\* invoice rows: every kind of due date around 2025-07-15
RowsDue ==
    { Invoice(1, Global, "Grade 1", "A", "Initial Academic Fee", "PartiallyPaid", 5000, due) :
        due \in { "2025-07-14", "2025-07-15", "2025-07-16", "n/a", NaN } }
    \cup
    { Invoice(1, Global, "Grade 1", "A", "Initial Academic Fee", "Overdue", 5000, due) :
        due \in { "2025-07-16", NaN } }

\* invoice rows: the remaining cell kinds
RowsOther ==
    { Invoice(1, Global, "Grade 1", "A", "Initial Academic Fee", "Paid", 0, "2025-07-14"),
      Invoice(1, Global, "Grade 1", "A", "Bus Fee", "Overdue", 5000, "2025-07-14"),
      Invoice(1, Global, "Grade 1", "A", NaN, "Overdue", 5000, "2025-07-14"),
      Invoice(1, Central, "Grade 1", "A", "March Monthly Fee", "Overdue", 5000, "2025-07-14"),
      Invoice(1, Global, "Grade 1", NaN, "Initial Academic Fee", "Overdue", 5000, "2025-07-14"),
      Invoice(1, Global, "Grade 2", "B", "Initial Academic Fee", "Overdue", 5000, "2025-07-14") }

InvoiceRows == RowsStatus \cup RowsSchool \cup RowsDue \cup RowsOther

Todays == { date(2025, 5, 20), date(2025, 7, 15), date(2026, 1, 10) }

\* customer 1 has a contact row, customer 2 has none
ContactRows1 == << Contact(1, "Asha", "Rao", "E001", Global, "Grade 1", "A", "0") >>

File(rows) == [ ok |-> TRUE, rows |-> rows ]
Unreadable == [ ok |-> FALSE, rows |-> << >> ]

NoCall == [ school |-> "", overdue_fee_types |-> {}, columns |-> << >> ]
\* ready: whether both attributes were set when the call was made; raised:
\* whether the call ended in an exception
NoResult == [ called |-> FALSE, ready |-> FALSE, raised |-> FALSE, rows |-> << >> ]
NoPrev == [ called |-> FALSE, today |-> 0, summaries |-> << >> ]
NoView == [ school |-> "", view_type |-> "", rows |-> << >> ]
NoClassification == [ item_name |-> "", school |-> "", fee_type |-> None ]
NoReport == [ called |-> FALSE, rows |-> << >> ]

-----------------------------------------------------------------------------
(* FeeDefaulterExtractor.run / app.process_uploaded_files                   *)

Init ==
    /\ today \in Todays
    /\ \/ /\ contacts_file = File(ContactRows1)
          /\ invoices_file \in { File(t) : t \in SeqsUpTo(InvoiceRows, MaxInvoices) }
       \/ /\ contacts_file \in { File(ContactRows1), Unreadable }
          /\ invoices_file = Unreadable
       \/ /\ contacts_file = Unreadable
          /\ invoices_file \in { File(t) : t \in SeqsUpTo(RowsOther, 1) }
    /\ payments_file = Unreadable
    /\ pc = "start"
    /\ contacts_df = << >>
    /\ invoices_df = << >>
    /\ defaulter_invoices = << >>
    /\ summaries = << >>
    /\ cal = NoCall
    /\ opening_balance_payments = << >>
    /\ contacts_balance_df = << >>
    /\ ob_result = NoResult
    /\ files = << >>
    /\ prev = NoPrev
    /\ view = NoView
    /\ cls = NoClassification
    /\ all_defaulters = << >>
    /\ defaulters_df = NoReport

\* lines 37-42; pd.read_csv raises on an unreadable file and the run ends
load_data ==
    /\ pc = "start"
    /\ IF contacts_file.ok /\ invoices_file.ok
       THEN /\ contacts_df' = contacts_file.rows
            /\ invoices_df' = invoices_file.rows
            /\ pc' = "loaded"
       ELSE /\ pc' = "failed"
            /\ UNCHANGED << contacts_df, invoices_df >>
    /\ UNCHANGED << today, contacts_file, invoices_file, payments_file,
                    defaulter_invoices, summaries, cal, opening_balance_payments,
                    contacts_balance_df, ob_result >>
    /\ UNCHANGED << files, prev, view, cls, all_defaulters, defaulters_df >>

\* faulty variant of run_process_invoices: the rows of an earlier call on the
\* same extractor are kept and the new ones are added to them
run_process_invoices_Accumulating ==
    /\ pc = "loaded"
    /\ defaulter_invoices' = defaulter_invoices \o process_invoices
    /\ pc' = "processed"
    /\ UNCHANGED << today, contacts_file, invoices_file, payments_file, contacts_df,
                    invoices_df, summaries, cal, opening_balance_payments,
                    contacts_balance_df, ob_result >>
    /\ UNCHANGED << files, prev, view, cls, all_defaulters, defaulters_df >>

\* line 322: defaulter_invoices = self.process_invoices()
run_process_invoices ==
    /\ pc = "loaded"
    /\ defaulter_invoices' = process_invoices
    /\ pc' = "processed"
    /\ UNCHANGED << today, contacts_file, invoices_file, payments_file, contacts_df,
                    invoices_df, summaries, cal, opening_balance_payments,
                    contacts_balance_df, ob_result >>
    /\ UNCHANGED << files, prev, view, cls, all_defaulters, defaulters_df >>

\* lines 327-335: one iteration of the loop over the two schools, every write
\* of save_reports succeeding
run_school ==
    /\ pc = "processed"
    /\ Len(summaries) < Len(Schools)
    /\ LET school == Schools[Len(summaries) + 1]
           summary_df == create_student_summary(defaulter_invoices, school)
       IN  /\ summaries' = Append(summaries,
                                  [ school |-> school,
                                    due_columns |-> summary_df.due_columns,
                                    rows |-> summary_df.rows ])
           /\ files' = IF summary_df.rows # << >>
                       THEN save_reports(files, summary_df, school)
                       ELSE files
    /\ pc' = IF Len(summaries) + 1 = Len(Schools) THEN "done" ELSE "processed"
    /\ UNCHANGED << today, contacts_file, invoices_file, payments_file, contacts_df,
                    invoices_df, defaulter_invoices, cal, opening_balance_payments,
                    contacts_balance_df, ob_result >>
    /\ UNCHANGED << prev, view, cls, all_defaulters, defaulters_df >>

Next == load_data \/ run_process_invoices \/ run_school

Spec == Init /\ [][Next]_vars

-----------------------------------------------------------------------------
(* get_due_fees_columns called on its own, for every date around a boundary *)

\* the first day of every academic month and the day before it, and a date
\* well before and well after the academic year
CalendarDates ==
    { date(2024, 12, 31), date(2026, 12, 31),
      date(2025, 5, 31), date(2025, 6, 1), date(2025, 6, 30), date(2025, 7, 1),
      date(2025, 7, 31), date(2025, 8, 1), date(2025, 8, 31), date(2025, 9, 1),
      date(2025, 9, 30), date(2025, 10, 1), date(2025, 10, 31), date(2025, 11, 1),
      date(2025, 11, 30), date(2025, 12, 1), date(2025, 12, 31), date(2026, 1, 1),
      date(2026, 1, 31), date(2026, 2, 1), date(2026, 2, 28), date(2026, 3, 1) }

\* the overdue sets passed in: any set of these fee period keys
OverdueKeys == { "Initial Fee", "Term I", "Term II", "Term III", "Aug-2025", "Mar-2026" }

InitCalendar ==
    /\ today \in CalendarDates
    /\ contacts_file = Unreadable
    /\ invoices_file = Unreadable
    /\ payments_file = Unreadable
    /\ pc = "calendar"
    /\ contacts_df = << >>
    /\ invoices_df = << >>
    /\ defaulter_invoices = << >>
    /\ summaries = << >>
    /\ cal = NoCall
    /\ opening_balance_payments = << >>
    /\ contacts_balance_df = << >>
    /\ ob_result = NoResult
    /\ files = << >>
    /\ prev = NoPrev
    /\ view = NoView
    /\ cls = NoClassification
    /\ all_defaulters = << >>
    /\ defaulters_df = NoReport

call_get_due_fees_columns ==
    /\ pc = "calendar"
    /\ \E school \in Range(Schools), overdue_fee_types \in SUBSET OverdueKeys :
           cal' = [ school |-> school, overdue_fee_types |-> overdue_fee_types,
                    columns |-> get_due_fees_columns(school, overdue_fee_types) ]
    /\ UNCHANGED << today, contacts_file, invoices_file, payments_file, pc, contacts_df,
                    invoices_df, defaulter_invoices, summaries,
                    opening_balance_payments, contacts_balance_df, ob_result >>
    /\ UNCHANGED << files, prev, view, cls, all_defaulters, defaulters_df >>

NextCalendar == call_get_due_fees_columns

SpecCalendar == InitCalendar /\ [][NextCalendar]_vars

-----------------------------------------------------------------------------
(* InitialFeeDefaulterExtractor: the two loads and the reconciler, called   *)
(* in any order on a fresh extractor                                        *)

ContactRowsOpening ==
    { Contact(id, "Asha", "Rao", "E001", Central, "Grade 1", "A", opening) :
        id \in { 1, 2 }, opening \in { "10000", "0" } }
    \cup { Contact(1, "Asha", "Rao", "E001", Central, "Grade 1", "A", NaN),
           Contact(1, "Asha", "Rao", "E001", Central, "Grade 1", NaN, "10000") }

PaymentRows ==
    { Payment(c, "Customer opening balance", amount, "Asha Rao") :
        c \in { 1, 2 }, amount \in { "4000", "6000", "n/a" } }
    \cup
    { Payment(c, "INV-0001", "10000", "Asha Rao") : c \in { 1, 2 } }
    \cup
    { Payment(1, "Customer opening balance", "10000", "Asha Rao") }

InitOpening ==
    /\ today \in { date(2025, 7, 15) }
    /\ contacts_file \in { File(t) : t \in SeqsUpTo(ContactRowsOpening, MaxContacts) }
                         \cup { Unreadable }
    /\ payments_file \in { File(t) : t \in SeqsUpTo(PaymentRows, MaxPayments) }
                         \cup { Unreadable }
    /\ invoices_file = Unreadable
    /\ pc = "opening"
    /\ contacts_df = << >>
    /\ invoices_df = << >>
    /\ defaulter_invoices = << >>
    /\ summaries = << >>
    /\ cal = NoCall
    /\ opening_balance_payments = << >>
    /\ contacts_balance_df = << >>
    /\ ob_result = NoResult
    /\ files = << >>
    /\ prev = NoPrev
    /\ view = NoView
    /\ cls = NoClassification
    /\ all_defaulters = << >>
    /\ defaulters_df = NoReport

\* lines 22-53: on an exception nothing is stored
load_customer_payments ==
    /\ pc = "opening"
    /\ opening_balance_payments' =
           IF payments_file.ok THEN << OpeningBalancePayments(payments_file.rows) >>
           ELSE opening_balance_payments
    /\ UNCHANGED << today, contacts_file, invoices_file, payments_file, pc, contacts_df,
                    invoices_df, defaulter_invoices, summaries, cal,
                    contacts_balance_df, ob_result >>
    /\ UNCHANGED << files, prev, view, cls, all_defaulters, defaulters_df >>

\* lines 55-84: when the file cannot be read nothing is stored
load_contacts_with_opening_balance ==
    /\ pc = "opening"
    /\ contacts_balance_df' =
           IF contacts_file.ok THEN << ContactsTable(contacts_file.rows) >>
           ELSE contacts_balance_df
    /\ UNCHANGED << today, contacts_file, invoices_file, payments_file, pc, contacts_df,
                    invoices_df, defaulter_invoices, summaries, cal,
                    opening_balance_payments, ob_result >>
    /\ UNCHANGED << files, prev, view, cls, all_defaulters, defaulters_df >>

\* lines 86-123
call_identify_opening_balance_defaulters ==
    /\ pc = "opening"
    /\ ob_result' = [ called |-> TRUE,
                       ready |-> contacts_balance_df # << >> /\ opening_balance_payments # << >>,
                       raised |-> identify_raises,
                       rows |-> identify_opening_balance_defaulters ]
    /\ UNCHANGED << today, contacts_file, invoices_file, payments_file, pc, contacts_df,
                    invoices_df, defaulter_invoices, summaries, cal,
                    opening_balance_payments, contacts_balance_df >>
    /\ UNCHANGED << files, prev, view, cls, all_defaulters, defaulters_df >>

NextOpening ==
    \/ load_customer_payments
    \/ load_contacts_with_opening_balance
    \/ call_identify_opening_balance_defaulters

SpecOpening == InitOpening /\ [][NextOpening]_vars

-----------------------------------------------------------------------------
(* app.py: process_uploaded_files, then the table of a school tab           *)

\* invoice rows: owed, settled, not invoiced and not classified periods, for
\* two students in two grades, with amounts of four and of seven digits
RowsApp ==
    { Invoice(1, Global, "Grade 1", "A", "Initial Academic Fee", "Overdue", 5000, "2025-07-14"),
      Invoice(1, Global, "Grade 1", "A", "Term I Fee (June)", "Overdue", 1250000, "2025-07-14"),
      Invoice(1, Global, "Grade 1", "A", "Initial Academic Fee", "Closed", 0, "2025-07-14"),
      Invoice(1, Global, "Grade 1", "A", "Bus Fee", "Overdue", 5000, "2025-07-14"),
      Invoice(2, Global, "Grade 2", "B", "Initial Academic Fee", "Overdue", 5000, "2025-07-14"),
      Invoice(2, Central, "Grade 1", "A", "July Monthly Fee", "Overdue", 5000, "2025-07-14"),
      Invoice(1, Central, "Grade 1", "A", "Initial Academic Fee", "Paid", 0, "2025-07-14") }

InitApp ==
    /\ today \in Todays
    /\ contacts_file = File(ContactRows1)
    /\ invoices_file \in { File(t) : t \in SeqsUpTo(RowsApp, MaxInvoices) }
    /\ payments_file = Unreadable
    /\ pc = "start"
    /\ contacts_df = << >>
    /\ invoices_df = << >>
    /\ defaulter_invoices = << >>
    /\ summaries = << >>
    /\ cal = NoCall
    /\ opening_balance_payments = << >>
    /\ contacts_balance_df = << >>
    /\ ob_result = NoResult
    /\ files = << >>
    /\ prev = NoPrev
    /\ view = NoView
    /\ cls = NoClassification
    /\ all_defaulters = << >>
    /\ defaulters_df = NoReport

SearchQueries == { "", "RAO" }

\* app.py lines 640-747 and 749-851: the table shown for a tab whose summary is
\* not empty, for a choice of search text, grade, section and view type
show_view ==
    /\ pc = "done"
    /\ \E k \in 1..Len(summaries) :
           /\ summaries[k].rows # << >>
           /\ \E search_query \in SearchQueries,
                 selected_grade \in { "All" } \cup { summaries[k].rows[i].Grade :
                                                      i \in 1..Len(summaries[k].rows) },
                 selected_section \in { "All" } \cup { summaries[k].rows[i].Section :
                                                        i \in 1..Len(summaries[k].rows) },
                 view_type \in { "Teachers View", "Accounts View" } :
                  LET filtered_data == FilterRows(summaries[k].rows, search_query,
                                                  selected_grade, selected_section)
                  IN  view' = [ school |-> summaries[k].school,
                                view_type |-> view_type,
                                rows |-> IF view_type = "Teachers View"
                                         THEN TeachersView(filtered_data, summaries[k].due_columns)
                                         ELSE AccountsView(filtered_data) ]
    /\ UNCHANGED << today, contacts_file, invoices_file, payments_file, pc, contacts_df,
                    invoices_df, defaulter_invoices, summaries, cal,
                    opening_balance_payments, contacts_balance_df, ob_result >>
    /\ UNCHANGED << files, prev, cls, all_defaulters, defaulters_df >>

NextApp == load_data \/ run_process_invoices \/ run_school \/ show_view

SpecApp == InitApp /\ [][NextApp]_vars

-----------------------------------------------------------------------------
(* InitialFeeDefaulterExtractor.run                                         *)

\* invoice rows: a student flagged in two groups and at both schools, a
\* student with a missing Section, and a settled initial fee
RowsCombined ==
    { Invoice(1, Global, "Grade 1", "A", "Initial Academic Fee", "Overdue", 5000, "2025-07-14"),
      Invoice(1, Global, "Grade 2", "B", "Initial Academic Fee", "Overdue", 5000, "2025-07-14"),
      Invoice(1, Central, "Grade 1", "A", "Initial Academic Fee", "Overdue", 5000, "2025-07-14"),
      Invoice(2, Global, "Grade 1", NaN, "Initial Academic Fee", "Overdue", 5000, "2025-07-14"),
      Invoice(1, Global, "Grade 1", "A", "Initial Academic Fee", "Closed", 0, "2025-07-14") }

\* contact rows: two students, each owing an opening balance
ContactRowsCombined ==
    { Contact(1, "Asha", "Rao", "E001", Central, "Grade 1", "A", "10000"),
      Contact(2, "Binu", "Das", "E002", Global, "Grade 1", NaN, "10000") }

PaymentRowsCombined ==
    { Payment(1, "Customer opening balance", "4000", "Asha Rao"),
      Payment(1, "Customer opening balance", "10000", "Asha Rao") }

InitCombined ==
    /\ today \in { date(2025, 7, 15) }
    /\ contacts_file \in { File(t) : t \in SeqsUpTo(ContactRowsCombined, MaxContacts) }
                         \cup { Unreadable }
    /\ invoices_file \in { File(t) : t \in SeqsUpTo(RowsCombined, MaxInvoices) }
                         \cup { Unreadable }
    /\ payments_file \in { File(t) : t \in SeqsUpTo(PaymentRowsCombined, MaxPayments) }
                         \cup { Unreadable }
    /\ pc = "combined"
    /\ contacts_df = << >>
    /\ invoices_df = << >>
    /\ defaulter_invoices = << >>
    /\ summaries = << >>
    /\ cal = NoCall
    /\ opening_balance_payments = << >>
    /\ contacts_balance_df = << >>
    /\ ob_result = NoResult
    /\ files = << >>
    /\ prev = NoPrev
    /\ view = NoView
    /\ cls = NoClassification
    /\ all_defaulters = << >>
    /\ defaulters_df = NoReport

\* return pd.DataFrame()
EmptyReport == [ called |-> TRUE, rows |-> << >> ]

\* lines 131-133
extract_load_payments ==
    /\ pc = "combined"
    /\ IF payments_file.ok
       THEN /\ opening_balance_payments' = << OpeningBalancePayments(payments_file.rows) >>
            /\ pc' = "payments_loaded"
            /\ UNCHANGED defaulters_df
       ELSE /\ defaulters_df' = EmptyReport
            /\ pc' = "extracted"
            /\ UNCHANGED opening_balance_payments
    /\ UNCHANGED << today, contacts_file, invoices_file, payments_file, contacts_df,
                    invoices_df, defaulter_invoices, summaries, cal,
                    contacts_balance_df, ob_result >>
    /\ UNCHANGED << files, prev, view, cls, all_defaulters >>

\* lines 135-137
extract_load_contacts ==
    /\ pc = "payments_loaded"
    /\ contacts_balance_df' =
           IF contacts_file.ok THEN << ContactsTable(contacts_file.rows) >>
           ELSE contacts_balance_df
    /\ IF ContactsLoadSucceeds
       THEN /\ pc' = "contacts_loaded"
            /\ UNCHANGED defaulters_df
       ELSE /\ defaulters_df' = EmptyReport
            /\ pc' = "extracted"
    /\ UNCHANGED << today, contacts_file, invoices_file, payments_file, contacts_df,
                    invoices_df, defaulter_invoices, summaries, cal,
                    opening_balance_payments, ob_result >>
    /\ UNCHANGED << files, prev, view, cls, all_defaulters >>

\* lines 140-147: the reconciler, then a new FeeDefaulterExtractor
extract_identify ==
    /\ pc = "contacts_loaded"
    /\ ob_result' = [ called |-> TRUE, ready |-> TRUE, raised |-> identify_raises,
                       rows |-> identify_opening_balance_defaulters ]
    /\ pc' = "start"
    /\ UNCHANGED << today, contacts_file, invoices_file, payments_file, contacts_df,
                    invoices_df, defaulter_invoices, summaries, cal,
                    opening_balance_payments, contacts_balance_df >>
    /\ UNCHANGED << files, prev, view, cls, all_defaulters, defaulters_df >>

\* faulty variant of extract_collect: the opening balance records are
\* collected before the initial fee records
extract_collect_OpeningFirst ==
    /\ pc = "processed"
    /\ ob_result.called
    /\ LET collected ==
               FormattedOpeningBalanceDefaulters(ob_result.rows)
               \o Concat([ k \in 1..Len(Schools) |->
                             InitialFeeDefaultersOf(defaulter_invoices, invoices_df, Schools[k]) ])
       IN  /\ all_defaulters' = collected
           /\ defaulters_df' = [ called |-> TRUE,
                                 rows |-> sort_values(drop_duplicates(collected)) ]
    /\ pc' = "extracted"
    /\ UNCHANGED << today, contacts_file, invoices_file, payments_file, contacts_df,
                    invoices_df, defaulter_invoices, summaries, cal,
                    opening_balance_payments, contacts_balance_df, ob_result >>
    /\ UNCHANGED << files, prev, view, cls >>

\* lines 156-272: the loop over the schools, the opening balance defaulters
\* appended, then de-duplication and sort
extract_collect ==
    /\ pc = "processed"
    /\ ob_result.called
    /\ LET collected ==
               Concat([ k \in 1..Len(Schools) |->
                          InitialFeeDefaultersOf(defaulter_invoices, invoices_df, Schools[k]) ])
               \o FormattedOpeningBalanceDefaulters(ob_result.rows)
       IN  /\ all_defaulters' = collected
           /\ defaulters_df' = [ called |-> TRUE,
                                 rows |-> sort_values(drop_duplicates(collected)) ]
    /\ pc' = "extracted"
    /\ UNCHANGED << today, contacts_file, invoices_file, payments_file, contacts_df,
                    invoices_df, defaulter_invoices, summaries, cal,
                    opening_balance_payments, contacts_balance_df, ob_result >>
    /\ UNCHANGED << files, prev, view, cls >>

ReportPath == << "fee_and_opening_balance_defaulters.csv" >>

\* lines 274-294 and 314-316: the report is written unless it is empty
save_defaulters_report ==
    /\ pc = "extracted"
    /\ files' = IF defaulters_df.rows # << >>
                THEN WriteFile(files, [ path |-> ReportPath, due_columns |-> << >>,
                                        rows |-> defaulters_df.rows ])
                ELSE files
    /\ pc' = "saved"
    /\ UNCHANGED << today, contacts_file, invoices_file, payments_file, contacts_df,
                    invoices_df, defaulter_invoices, summaries, cal,
                    opening_balance_payments, contacts_balance_df, ob_result >>
    /\ UNCHANGED << prev, view, cls, all_defaulters, defaulters_df >>

NextCombined ==
    \/ extract_load_payments
    \/ extract_load_contacts
    \/ extract_identify
    \/ load_data
    \/ run_process_invoices
    \/ extract_collect
    \/ save_defaulters_report

SpecCombined == InitCombined /\ [][NextCombined]_vars

-----------------------------------------------------------------------------
(* A second run over the same two files: on the same extractor, or on a new *)
(* extractor built on a later day                                           *)

\* invoice rows: invoices that are overdue whatever the date, and partially
\* paid ones that fall due between two of the dates
RowsRerun ==
    { Invoice(1, Global, "Grade 1", "A", "Initial Academic Fee", "Overdue", 5000, "2025-07-14"),
      Invoice(1, Global, "Grade 1", "A", "Initial Academic Fee", "Closed", 0, "2025-07-14"),
      Invoice(1, Global, "Grade 1", "A", "Term III Fee (Jan)", "PartiallyPaid", 5000, "2025-07-14"),
      Invoice(1, Global, "Grade 1", "A", "Term II Fee (Sept)", "PartiallyPaid", 5000, "2026-01-05"),
      Invoice(1, Central, "Grade 1", "A", "July Monthly Fee", "Overdue", 5000, "2025-07-14"),
      Invoice(1, Central, "Grade 1", "A", "March Monthly Fee", "PartiallyPaid", 5000, "2025-07-14"),
      Invoice(2, Central, "Grade 1", "A", "Initial Academic Fee", "Overdue", 5000, "2025-07-14") }

InitRerun ==
    /\ today \in Todays
    /\ contacts_file = File(ContactRows1)
    /\ invoices_file \in { File(t) : t \in SeqsUpTo(RowsRerun, MaxInvoices) }
    /\ payments_file = Unreadable
    /\ pc = "start"
    /\ contacts_df = << >>
    /\ invoices_df = << >>
    /\ defaulter_invoices = << >>
    /\ summaries = << >>
    /\ cal = NoCall
    /\ opening_balance_payments = << >>
    /\ contacts_balance_df = << >>
    /\ ob_result = NoResult
    /\ files = << >>
    /\ prev = NoPrev
    /\ view = NoView
    /\ cls = NoClassification
    /\ all_defaulters = << >>
    /\ defaulters_df = NoReport

\* process_invoices and the summaries are asked for again on the extractor
\* that has finished a run: its tables and its today are what they were
rerun_same_extractor ==
    /\ pc = "done"
    /\ ~prev.called
    /\ prev' = [ called |-> TRUE, today |-> today, summaries |-> summaries ]
    /\ summaries' = << >>
    /\ pc' = "loaded"
    /\ UNCHANGED << today, contacts_file, invoices_file, payments_file, contacts_df,
                    invoices_df, defaulter_invoices, cal, opening_balance_payments,
                    contacts_balance_df, ob_result >>
    /\ UNCHANGED << files, view, cls, all_defaulters, defaulters_df >>

\* a new extractor is built over the same files on a later day:
\* __init__ reads the clock and the tables are not loaded yet
run_on_later_day ==
    /\ pc = "done"
    /\ ~prev.called
    /\ \E later \in { d \in Todays : d > today } : today' = later
    /\ prev' = [ called |-> TRUE, today |-> today, summaries |-> summaries ]
    /\ contacts_df' = << >>
    /\ invoices_df' = << >>
    /\ defaulter_invoices' = << >>
    /\ summaries' = << >>
    /\ pc' = "start"
    /\ UNCHANGED << contacts_file, invoices_file, payments_file, cal,
                    opening_balance_payments, contacts_balance_df, ob_result >>
    /\ UNCHANGED << files, view, cls, all_defaulters, defaulters_df >>

NextRerun ==
    \/ load_data
    \/ run_process_invoices
    \/ run_school
    \/ rerun_same_extractor
    \/ run_on_later_day

SpecRerun == InitRerun /\ [][NextRerun]_vars

-----------------------------------------------------------------------------
(* FeeDefaulterExtractor.run on a file system that can refuse a write       *)

\* invoice rows: defaulters of two grades at each school
RowsIO ==
    { Invoice(c, school, grade, "A", "Initial Academic Fee", "Overdue", 5000, "2025-07-14") :
        c \in { 1 }, school \in Range(Schools), grade \in { "Grade 1", "Grade 2" } }

InitIO ==
    /\ today \in Todays
    /\ \/ /\ contacts_file = File(ContactRows1)
          /\ invoices_file \in { File(t) : t \in SeqsUpTo(RowsIO, MaxInvoices) }
       \/ /\ contacts_file \in { File(ContactRows1), Unreadable }
          /\ invoices_file = Unreadable
       \/ /\ contacts_file = Unreadable
          /\ invoices_file \in { File(t) : t \in SeqsUpTo(RowsIO, 1) }
    /\ payments_file = Unreadable
    /\ pc = "start"
    /\ contacts_df = << >>
    /\ invoices_df = << >>
    /\ defaulter_invoices = << >>
    /\ summaries = << >>
    /\ cal = NoCall
    /\ opening_balance_payments = << >>
    /\ contacts_balance_df = << >>
    /\ ob_result = NoResult
    /\ files = << >>
    /\ prev = NoPrev
    /\ view = NoView
    /\ cls = NoClassification
    /\ all_defaulters = << >>
    /\ defaulters_df = NoReport

\* lines 327-335: one iteration of the loop in which a mkdir or to_csv of
\* save_reports raises after n of its writes; nothing catches the exception,
\* so the run ends there and the files already written stay
run_school_raises ==
    /\ pc = "processed"
    /\ Len(summaries) < Len(Schools)
    /\ LET school == Schools[Len(summaries) + 1]
           summary_df == create_student_summary(defaulter_invoices, school)
           writes == ReportWrites(summary_df, school)
       IN  /\ summary_df.rows # << >>
           /\ \E n \in 0..(Len(writes) - 1) :
                  files' = WriteAll(files, SubSeq(writes, 1, n))
    /\ pc' = "failed"
    /\ UNCHANGED << today, contacts_file, invoices_file, payments_file, contacts_df,
                    invoices_df, defaulter_invoices, summaries, cal,
                    opening_balance_payments, contacts_balance_df, ob_result >>
    /\ UNCHANGED << prev, view, cls, all_defaulters, defaulters_df >>

NextIO == load_data \/ run_process_invoices \/ run_school \/ run_school_raises

SpecIO == InitIO /\ [][NextIO]_vars

-----------------------------------------------------------------------------
(* app.py: the two reports asked for one after the other over the same      *)
(* uploaded files                                                           *)

\* invoice rows: an initial fee that is owed, owed with nothing left to pay,
\* and settled; a second grade and a second school
RowsBoth ==
    { Invoice(1, Global, "Grade 1", "A", "Initial Academic Fee", "Overdue", 5000, "2025-07-14"),
      Invoice(1, Global, "Grade 1", "A", "Initial Academic Fee", "Overdue", 0, "2025-07-14"),
      Invoice(1, Global, "Grade 1", "A", "Initial Academic Fee", "Closed", 0, "2025-07-14"),
      Invoice(1, Global, "Grade 2", "B", "Initial Academic Fee", "Overdue", 5000, "2025-07-14"),
      Invoice(2, Central, "Grade 1", "A", "Initial Academic Fee", "Overdue", 5000, "2025-07-14"),
      Invoice(1, Global, "Grade 1", "A", "Term I Fee (June)", "Overdue", 5000, "2025-07-14") }

\* contact rows: the same Contact ID can be listed twice
ContactRowsBoth ==
    { Contact(1, "Asha", "Rao", "E001", Global, "Grade 1", "A", "10000"),
      Contact(1, "Asha", "R", "E001", Global, "Grade 2", "B", "0") }

InitBoth ==
    /\ today \in { date(2025, 7, 15) }
    /\ contacts_file \in { File(t) : t \in SeqsUpTo(ContactRowsBoth, MaxContacts) }
    /\ invoices_file \in { File(t) : t \in SeqsUpTo(RowsBoth, MaxInvoices) }
    /\ payments_file = File(<< >>)
    /\ pc = "start"
    /\ contacts_df = << >>
    /\ invoices_df = << >>
    /\ defaulter_invoices = << >>
    /\ summaries = << >>
    /\ cal = NoCall
    /\ opening_balance_payments = << >>
    /\ contacts_balance_df = << >>
    /\ ob_result = NoResult
    /\ files = << >>
    /\ prev = NoPrev
    /\ view = NoView
    /\ cls = NoClassification
    /\ all_defaulters = << >>
    /\ defaulters_df = NoReport

\* app.py lines 483-487: after the fee reports, the combined report is asked
\* for: process_initial_fee_defaulters builds its own extractor
start_combined ==
    /\ pc = "done"
    /\ ~defaulters_df.called
    /\ pc' = "combined"
    /\ UNCHANGED << today, contacts_file, invoices_file, payments_file, contacts_df,
                    invoices_df, defaulter_invoices, summaries, cal,
                    opening_balance_payments, contacts_balance_df, ob_result >>
    /\ UNCHANGED << files, prev, view, cls, all_defaulters, defaulters_df >>

NextBoth ==
    \/ load_data
    \/ run_process_invoices
    \/ run_school
    \/ start_combined
    \/ extract_load_payments
    \/ extract_load_contacts
    \/ extract_identify
    \/ extract_collect
    \/ save_defaulters_report

SpecBoth == InitBoth /\ [][NextBoth]_vars

-----------------------------------------------------------------------------
(* InitialFeeDefaulterExtractor: its methods called in any order on a fresh *)
(* extractor, then extract_initial_fee_defaulters                           *)

\* contact rows: with and without a first name
ContactRowsCalls ==
    { Contact(1, "Asha", "Rao", "E001", Central, "Grade 1", "A", "10000"),
      Contact(1, NaN, "Rao", "E001", Central, "Grade 1", "A", "10000"),
      Contact(2, NaN, NaN, "E002", Central, "Grade 1", "A", "0") }

RowsCalls ==
    { Invoice(1, Central, "Grade 1", "A", "Initial Academic Fee", "Overdue", 5000, "2025-07-14") }

InitCalls ==
    /\ today \in { date(2025, 7, 15) }
    /\ contacts_file \in { File(t) : t \in SeqsUpTo(ContactRowsCalls, MaxContacts) }
                         \cup { Unreadable }
    /\ invoices_file \in { File(t) : t \in SeqsUpTo(RowsCalls, 1) }
    /\ payments_file \in { File(t) : t \in SeqsUpTo(PaymentRowsCombined, MaxPayments) }
                         \cup { Unreadable }
    /\ pc = "opening"
    /\ contacts_df = << >>
    /\ invoices_df = << >>
    /\ defaulter_invoices = << >>
    /\ summaries = << >>
    /\ cal = NoCall
    /\ opening_balance_payments = << >>
    /\ contacts_balance_df = << >>
    /\ ob_result = NoResult
    /\ files = << >>
    /\ prev = NoPrev
    /\ view = NoView
    /\ cls = NoClassification
    /\ all_defaulters = << >>
    /\ defaulters_df = NoReport

\* lines 125-130: extract_initial_fee_defaulters is called
begin_extract ==
    /\ pc = "opening"
    /\ pc' = "combined"
    /\ UNCHANGED << today, contacts_file, invoices_file, payments_file, contacts_df,
                    invoices_df, defaulter_invoices, summaries, cal,
                    opening_balance_payments, contacts_balance_df, ob_result >>
    /\ UNCHANGED << files, prev, view, cls, all_defaulters, defaulters_df >>

NextCalls ==
    \/ load_customer_payments
    \/ load_contacts_with_opening_balance
    \/ call_identify_opening_balance_defaulters
    \/ begin_extract
    \/ extract_load_payments
    \/ extract_load_contacts
    \/ extract_identify
    \/ load_data
    \/ run_process_invoices
    \/ extract_collect
    \/ save_defaulters_report

SpecCalls == InitCalls /\ [][NextCalls]_vars

-----------------------------------------------------------------------------
(* extract_fee_type called on its own, for every kind of description        *)

\* one fixed fee name after another in one description
TwoNames(names) ==
    { names[i] \o " and " \o names[j] : i \in 1..Len(names), j \in 1..Len(names) }

ItemNames ==
    { excel_global_fees[i][1] : i \in 1..Len(excel_global_fees) }
    \cup { excel_central_months[i] \o " Monthly Fee" : i \in 1..Len(excel_central_months) }
    \cup TwoNames([ i \in 1..Len(excel_global_fees) |-> excel_global_fees[i][1] ])
    \cup TwoNames(<< "Initial Academic Fee", "June Monthly Fee", "March Monthly Fee",
                    "January Monthly Fee" >>)
    \cup { "2025-26 Term II Fee (Sept) - Grade 1", "EGS Initial Academic Fee 2025",
           "ECS August Monthly Fee (2025-26)", "Term I", "Term I Fee", "Term I Fee (June",
           "term i fee (june)", "Monthly Fee", "June Fee", "june monthly fee",
           "May Monthly Fee", "Bus Fee", "", NaN }

OtherSchool == "Excel Kids School"

InitClassify ==
    /\ today \in { date(2025, 7, 15) }
    /\ contacts_file = Unreadable
    /\ invoices_file = Unreadable
    /\ payments_file = Unreadable
    /\ pc = "classify"
    /\ contacts_df = << >>
    /\ invoices_df = << >>
    /\ defaulter_invoices = << >>
    /\ summaries = << >>
    /\ cal = NoCall
    /\ opening_balance_payments = << >>
    /\ contacts_balance_df = << >>
    /\ ob_result = NoResult
    /\ files = << >>
    /\ prev = NoPrev
    /\ view = NoView
    /\ cls = NoClassification
    /\ all_defaulters = << >>
    /\ defaulters_df = NoReport

call_extract_fee_type ==
    /\ pc = "classify"
    /\ \E item_name \in ItemNames, school \in Range(Schools) \cup { OtherSchool } :
           cls' = [ item_name |-> item_name, school |-> school,
                    fee_type |-> extract_fee_type(item_name, school) ]
    /\ UNCHANGED << today, contacts_file, invoices_file, payments_file, pc, contacts_df,
                    invoices_df, defaulter_invoices, summaries, cal,
                    opening_balance_payments, contacts_balance_df, ob_result >>
    /\ UNCHANGED << files, prev, view, all_defaulters, defaulters_df >>

NextClassify == call_extract_fee_type

SpecClassify == InitClassify /\ [][NextClassify]_vars

-----------------------------------------------------------------------------
(* Properties of the aggregator, stated over the inputs and the results     *)

Customers == { 1, 2 }

\* every (summary, row, fee column) the run has produced so far
Cells ==
    UNION { { << k, i, col >> : i \in 1..Len(summaries[k].rows),
                               col \in Range(summaries[k].due_columns) } :
              k \in 1..Len(summaries) }

CellValue(cell) == summaries[cell[1]].rows[cell[2]].Fees[cell[3]]

\* the overdue-filtered invoices of the cell's (customer id, grade, section)
\* group classified to the cell's period
FilteredOfCell(cell) ==
    LET school == summaries[cell[1]].school
        row == summaries[cell[1]].rows[cell[2]]
    IN  SelectSeq(defaulter_invoices,
                  LAMBDA d : /\ d.School = school
                             /\ d.CustomerID = row.CustomerID
                             /\ d.Grade = row.Grade
                             /\ d.Section = row.Section
                             /\ extract_fee_type(d.ItemName, school) = cell[3])

\* all invoices of the cell's student at the cell's school classified to the
\* cell's period
AllOfCell(cell) ==
    LET school == summaries[cell[1]].school
        row == summaries[cell[1]].rows[cell[2]]
    IN  SelectSeq(invoices_df,
                  LAMBDA v : /\ v.School = school
                             /\ v.CustomerID = row.CustomerID
                             /\ extract_fee_type(v.ItemName, school) = cell[3])

RECURSIVE SumBalances(_)
SumBalances(rows) ==
    IF rows = << >> THEN 0 ELSE rows[1].Balance + SumBalances(Tail(rows))

Settled(rows) == \E i \in 1..Len(rows) : rows[i].InvoiceStatus \in { "Closed", "Paid" }

\* C1: in every summary row, a due column whose group has a positive sum of
\* Balance over its overdue-filtered invoices of that period holds exactly that sum
C1_PositiveBalanceIsAmount ==
    \A cell \in Cells :
        SumBalances(FilteredOfCell(cell)) > 0
            => CellValue(cell) = SumBalances(FilteredOfCell(cell))

\* a column that sums two filtered invoices
C1_Witness ==
    \E cell \in Cells :
        /\ Len(FilteredOfCell(cell)) = 2
        /\ SumBalances(FilteredOfCell(cell)) = 10000
        /\ CellValue(cell) = 10000

\* C2: in every summary row, a due column whose filtered sum is not positive is
\* the paid sentinel -1 exactly when the student has an invoice of that period
\* at that school and one of them is Closed or Paid or their balances sum to 0
C2_PaidSentinel ==
    \A cell \in Cells :
        SumBalances(FilteredOfCell(cell)) <= 0
            => (CellValue(cell) = 0 - 1
                  <=> /\ Len(AllOfCell(cell)) > 0
                      /\ (Settled(AllOfCell(cell)) \/ SumBalances(AllOfCell(cell)) = 0))

\* a Closed invoice that still carries a balance makes its period "paid", next
\* to a period that is owed
C2_Witness ==
    \E cell \in Cells, other \in Cells :
        /\ cell[1] = other[1] /\ cell[2] = other[2]
        /\ CellValue(other) > 0
        /\ CellValue(cell) = 0 - 1
        /\ FilteredOfCell(cell) = << >>
        /\ Settled(AllOfCell(cell))
        /\ SumBalances(AllOfCell(cell)) # 0

\* C3: a due column is 0 in exactly two cases: the student has no invoice of
\* that period at that school, or has some, the filtered sum is not positive,
\* none is Closed or Paid and their balances do not sum to 0
C3_ZeroCases ==
    \A cell \in Cells :
        CellValue(cell) = 0
            <=> \/ Len(AllOfCell(cell)) = 0
                \/ /\ Len(AllOfCell(cell)) > 0
                   /\ SumBalances(FilteredOfCell(cell)) <= 0
                   /\ ~Settled(AllOfCell(cell))
                   /\ SumBalances(AllOfCell(cell)) # 0

\* one row holding both cases: a period without any invoice and a period with
\* an invoice that is neither overdue nor settled
C3_Witness ==
    \E cell \in Cells, other \in Cells :
        /\ cell[1] = other[1] /\ cell[2] = other[2]
        /\ CellValue(cell) = 0 /\ Len(AllOfCell(cell)) = 0
        /\ CellValue(other) = 0 /\ Len(AllOfCell(other)) > 0

\* the sum of the strictly positive values of a row's due columns
RECURSIVE SumPositive(_, _)
SumPositive(fees, cols) ==
    IF cols = {} THEN 0
    ELSE LET c == CHOOSE x \in cols : TRUE
         IN  (IF fees[c] > 0 THEN fees[c] ELSE 0) + SumPositive(fees, cols \ { c })

SummaryRows ==
    UNION { { << k, i >> : i \in 1..Len(summaries[k].rows) } : k \in 1..Len(summaries) }

\* C4: Total Outstanding of every summary row is the sum of its strictly
\* positive due-column values; a paid sentinel adds nothing
C4_TotalOutstanding ==
    \A kr \in SummaryRows :
        LET row == summaries[kr[1]].rows[kr[2]]
        IN  row.TotalOutstanding = SumPositive(row.Fees, Range(summaries[kr[1]].due_columns))

\* a row with an owed period and a paid period
C4_Witness ==
    \E kr \in SummaryRows :
        LET row == summaries[kr[1]].rows[kr[2]]
        IN  /\ \E c \in DOMAIN row.Fees : row.Fees[c] = 0 - 1
            /\ \E c \in DOMAIN row.Fees : row.Fees[c] > 0
            /\ row.TotalOutstanding = 5000

\* C5: every row of a student summary has Total Outstanding > 0
C5_OnlyDefaulters ==
    \A kr \in SummaryRows : summaries[kr[1]].rows[kr[2]].TotalOutstanding > 0

\* the status / due-date rule, read off the raw invoice row
Qualifying(v) ==
    \/ v.InvoiceStatus = "Overdue"
    \/ /\ v.InvoiceStatus = "PartiallyPaid"
       /\ to_datetime(v.DueDate) # NaT
       /\ to_datetime(v.DueDate)[1] < today

HasQualifying(c, school) ==
    \E i \in 1..Len(invoices_df) :
        /\ invoices_df[i].CustomerID = c
        /\ invoices_df[i].School = school
        /\ Qualifying(invoices_df[i])

HasRow(c, k) == \E i \in 1..Len(summaries[k].rows) : summaries[k].rows[i].CustomerID = c

InvoiceCells(r, due) ==
    << r.CustomerID, r.School, r.Grade, r.Section, r.ItemName, r.InvoiceStatus, r.Balance, due >>

-----------------------------------------------------------------------------
(* Properties of the opening-balance reconciler                             *)

OpeningPayments(id) ==
    SelectSeq(payments_file.rows,
              LAMBDA q : q.CustomerID = id /\ q.InvoiceNumber = "Customer opening balance")

RECURSIVE SumAmounts(_)
SumAmounts(rows) ==
    IF rows = << >> THEN 0
    ELSE (IF to_numeric(rows[1].AmountApplied) = << >> THEN 0
          ELSE to_numeric(rows[1].AmountApplied)[1]) + SumAmounts(Tail(rows))

PaidTowards(id) == SumAmounts(OpeningPayments(id))

OwesOpening(c) ==
    /\ to_numeric(c.OpeningBalance) # << >>
    /\ to_numeric(c.OpeningBalance)[1] > 0
    /\ to_numeric(c.OpeningBalance)[1] - PaidTowards(c.ContactID) > 0

\* C8: with both tables loaded, identify_opening_balance_defaulters returns
\* exactly the contacts with Opening Balance > 0 whose opening balance minus
\* their 'Customer opening balance' payments is > 0, each with these three
\* amounts and the tag 'Opening Balance Not Fully Paid'
C8_OpeningBalanceDefaulters ==
    (ob_result.called /\ ob_result.ready) =>
        LET owing == SelectSeq(contacts_file.rows, OwesOpening)
        IN  [ i \in 1..Len(ob_result.rows) |->
                << ob_result.rows[i].ContactID, ob_result.rows[i].OpeningBalance,
                   ob_result.rows[i].TotalPaidOpeningBalance,
                   ob_result.rows[i].RemainingOpeningBalance, ob_result.rows[i].Status >> ]
            = [ i \in 1..Len(owing) |->
                << owing[i].ContactID, to_numeric(owing[i].OpeningBalance)[1],
                   PaidTowards(owing[i].ContactID),
                   to_numeric(owing[i].OpeningBalance)[1] - PaidTowards(owing[i].ContactID),
                   "Opening Balance Not Fully Paid" >> ]

\* a student whose two payments add up to the opening balance is left out of a
\* result that lists another student
C8_Witness ==
    /\ ob_result.called /\ ob_result.ready
    /\ Len(ob_result.rows) = 1
    /\ \E i \in 1..Len(contacts_file.rows) :
           /\ to_numeric(contacts_file.rows[i].OpeningBalance) = << 10000 >>
           /\ Len(OpeningPayments(contacts_file.rows[i].ContactID)) = 2
           /\ PaidTowards(contacts_file.rows[i].ContactID) = 10000
           /\ ob_result.rows[1].ContactID # contacts_file.rows[i].ContactID

-----------------------------------------------------------------------------
(* Properties of the fee calendar                                           *)

TermStart(key) ==
    CASE key = "Term I" -> 20250601
      [] key = "Term II" -> 20250901
      [] key = "Term III" -> 20260101

\* C9: for the term-based school the columns are Initial Fee, then each of
\* Term I, Term II, Term III, in this order, that has started or is in the
\* overdue set, each term on its own
C9_TermColumns ==
    cal.school = Global =>
        cal.columns = SelectSeq(<< "Initial Fee", "Term I", "Term II", "Term III" >>,
                                LAMBDA key : \/ key = "Initial Fee"
                                             \/ today >= TermStart(key)
                                             \/ key \in cal.overdue_fee_types)

\* before any term has started, an overdue Term II is listed without Term I
C9_Witness ==
    /\ cal.school = Global
    /\ today < 20250601
    /\ cal.overdue_fee_types = { "Term II" }
    /\ cal.columns = << "Initial Fee", "Term II" >>

AcademicMonthKeys ==
    << "Jun-2025", "Jul-2025", "Aug-2025", "Sep-2025", "Oct-2025",
       "Nov-2025", "Dec-2025", "Jan-2026", "Feb-2026", "Mar-2026" >>

AcademicMonthStarts ==
    << 20250601, 20250701, 20250801, 20250901, 20251001,
       20251101, 20251201, 20260101, 20260201, 20260301 >>

\* how many months the walk passes before the first one today has not reached
MonthsWalked ==
    CHOOSE n \in 0..10 :
        /\ \A j \in 1..n : today >= AcademicMonthStarts[j]
        /\ n < 10 => today < AcademicMonthStarts[n + 1]

-----------------------------------------------------------------------------
(* Properties of the due columns of a summary                               *)

\* the fee period keys of the school's rows of process_invoices' result
OverdueSetOf(school) ==
    { extract_fee_type(defaulter_invoices[i].ItemName, school) :
        i \in { j \in 1..Len(defaulter_invoices) : defaulter_invoices[j].School = school } }
      \ { None }

\* C11: for either school, every fee period key that has an overdue-filtered
\* invoice is among the due columns of the school's summary, also before the
\* period's start date
C11_OverdueSetIsListed ==
    \A k \in 1..Len(summaries) :
        summaries[k].rows # << >>
            => OverdueSetOf(summaries[k].school) \subseteq Range(summaries[k].due_columns)

\* C19: a student whose overdue-filtered invoices at a school have no Section
\* has a row in that school's summary, and the row's Section is 'General'
C19_NullSectionIsGeneral ==
    \A k \in 1..Len(summaries) :
        \A j \in 1..Len(defaulter_invoices) :
            (/\ defaulter_invoices[j].School = summaries[k].school
             /\ defaulter_invoices[j].Section = NaN)
                => \E i \in 1..Len(summaries[k].rows) :
                       /\ summaries[k].rows[i].CustomerID = defaulter_invoices[j].CustomerID
                       /\ summaries[k].rows[i].Grade = defaulter_invoices[j].Grade
                       /\ summaries[k].rows[i].Section = "General"

-----------------------------------------------------------------------------
(* Properties of the fee-type classifier                                    *)

GlobalNames ==
    << "Initial Academic Fee", "Term I Fee (June)", "Term II Fee (Sept)", "Term III Fee (Jan)" >>

GlobalKeys == << "Initial Fee", "Term I", "Term II", "Term III" >>

\* position of the first text of the list that occurs in s, 0 when none does
RECURSIVE FirstIn(_, _, _)
FirstIn(texts, s, i) ==
    IF i > Len(texts) THEN 0
    ELSE IF Contains(texts[i], s) THEN i
    ELSE FirstIn(texts, s, i + 1)

\* C12: for Excel Global School the result is the key of the first of the four
\* fixed fee names, in mapping order, that occurs in the description, and no
\* match when none occurs or the description is null; each fixed name gets its
\* own key, and no fixed name occurs in another
C12_GlobalFirstMatch ==
    /\ \A i \in 1..4, j \in 1..4 : i # j => ~Contains(GlobalNames[i], GlobalNames[j])
    /\ cls.school = Global =>
         /\ cls.fee_type =
              IF cls.item_name = NaN \/ FirstIn(GlobalNames, cls.item_name, 1) = 0
              THEN None
              ELSE GlobalKeys[FirstIn(GlobalNames, cls.item_name, 1)]
         /\ \A i \in 1..4 : cls.item_name = GlobalNames[i] => cls.fee_type = GlobalKeys[i]

\* a description that names Term III before Term I is classified Term I
C12_Witness ==
    /\ cls.school = Global
    /\ cls.item_name = "Term III Fee (Jan) and Term I Fee (June)"
    /\ cls.fee_type = "Term I"

MonthPatterns ==
    << "June Monthly Fee", "July Monthly Fee", "August Monthly Fee",
       "September Monthly Fee", "October Monthly Fee", "November Monthly Fee",
       "December Monthly Fee", "January Monthly Fee", "February Monthly Fee",
       "March Monthly Fee" >>

\* C13: for Excel Central School a description holding 'Initial Academic Fee'
\* is Initial Fee whatever month it names; otherwise the first academic month
\* M, June..March, with '<M> Monthly Fee' in the description gives
\* '<Mmm>-2025' (June..December) or '<Mmm>-2026' (January..March); otherwise,
\* or for a null description, there is no match
C13_CentralClassification ==
    cls.school = Central =>
        cls.fee_type =
            IF cls.item_name = NaN THEN None
            ELSE IF Contains("Initial Academic Fee", cls.item_name) THEN "Initial Fee"
            ELSE IF FirstIn(MonthPatterns, cls.item_name, 1) = 0 THEN None
            ELSE AcademicMonthKeys[FirstIn(MonthPatterns, cls.item_name, 1)]

\* a description that names a month before the initial fee is Initial Fee
C13_Witness ==
    /\ cls.school = Central
    /\ cls.item_name = "March Monthly Fee and Initial Academic Fee"
    /\ cls.fee_type = "Initial Fee"

-----------------------------------------------------------------------------
(* Properties of the teacher and accounts views                             *)

\* the summary rows of a school
RowsOfSchool(school) ==
    UNION { { summaries[k].rows[i] : i \in 1..Len(summaries[k].rows) } :
              k \in { j \in 1..Len(summaries) : summaries[j].school = school } }

ColumnsOfSchool(school) ==
    UNION { Range(summaries[k].due_columns) :
              k \in { j \in 1..Len(summaries) : summaries[j].school = school } }

\* every teacher table produced so far: the exported files and the app's table
TeacherTables ==
    { [ school |-> files[f].path[2], rows |-> files[f].rows ] :
        f \in { g \in 1..Len(files) : files[g].path[1] = "teachers" } }
    \cup (IF view.view_type = "Teachers View"
          THEN { [ school |-> view.school, rows |-> view.rows ] } ELSE {})

\* every accounts table produced so far
AccountsFiles ==
    { [ school |-> files[f].path[2], rows |-> files[f].rows ] :
        f \in { g \in 1..Len(files) : files[g].path[1] = "accounts" } }

TeacherText(x) == IF x > 0 THEN "Unpaid" ELSE IF x = 0 - 1 THEN "Paid" ELSE ""

SameStudent(r, t) ==
    /\ t.StudentName = r.StudentName
    /\ t.EnrollmentNo = r.EnrollmentNo
    /\ t.Grade = r.Grade
    /\ t.Section = r.Section

\* C14: every row of a teacher table, exported or shown by the app, is a
\* summary row of its school with each due column rendered 'Unpaid' for a
\* value > 0, 'Paid' for -1 and blank otherwise, so a 0 is never 'Paid'
C14_TeacherRendering ==
    \A table \in TeacherTables :
        \A i \in 1..Len(table.rows) :
            \E r \in RowsOfSchool(table.school) :
                /\ SameStudent(r, table.rows[i])
                /\ \A col \in ColumnsOfSchool(table.school) :
                       table.rows[i].Fees[col] = TeacherText(r.Fees[col])

AccountsAmount(x) == IF x = 0 - 1 THEN 0 ELSE x

\* the text the app's currency formatting gives an amount >= 0
CurrencyText(x) == IF x = 0 THEN CurrencySign \o "0" ELSE format_indian_currency(x)

\* C15: every row of an accounts table is a summary row of its school with
\* each due column holding the raw amount, -1 replaced by 0 (never a negative
\* value, a paid period shows 0), and with Total Outstanding and the identity
\* columns as in the summary; the app shows these amounts as currency
C15_AccountsRendering ==
    /\ \A table \in AccountsFiles :
           \A i \in 1..Len(table.rows) :
               \E r \in RowsOfSchool(table.school) :
                   /\ SameStudent(r, table.rows[i])
                   /\ table.rows[i].CustomerID = r.CustomerID
                   /\ table.rows[i].TotalOutstanding = r.TotalOutstanding
                   /\ \A col \in ColumnsOfSchool(table.school) :
                          /\ table.rows[i].Fees[col] = AccountsAmount(r.Fees[col])
                          /\ table.rows[i].Fees[col] >= 0
    /\ view.view_type = "Accounts View" =>
           \A i \in 1..Len(view.rows) :
               \E r \in RowsOfSchool(view.school) :
                   /\ SameStudent(r, view.rows[i])
                   /\ view.rows[i].CustomerID = r.CustomerID
                   /\ view.rows[i].TotalOutstanding = CurrencyText(r.TotalOutstanding)
                   /\ \A col \in ColumnsOfSchool(view.school) :
                          view.rows[i].Fees[col] = CurrencyText(AccountsAmount(r.Fees[col]))

-----------------------------------------------------------------------------
(* Properties of the combined report                                        *)

\* the positions of a customer's records in the list before de-duplication
RecordsOf(id) == { j \in 1..Len(all_defaulters) : all_defaulters[j].CustomerID = id }

\* C16: in the report extract_initial_fee_defaulters returns every customer
\* of the collected records appears exactly once, as the first record
\* collected for that customer, Status included
C16_OneRowPerCustomer ==
    defaulters_df.called =>
        /\ \A i \in 1..Len(defaulters_df.rows), j \in 1..Len(defaulters_df.rows) :
               i # j => defaulters_df.rows[i].CustomerID # defaulters_df.rows[j].CustomerID
        /\ \A i \in 1..Len(defaulters_df.rows) :
               /\ RecordsOf(defaulters_df.rows[i].CustomerID) # {}
               /\ defaulters_df.rows[i]
                    = all_defaulters[Min(RecordsOf(defaulters_df.rows[i].CustomerID))]
        /\ \A j \in 1..Len(all_defaulters) :
               \E i \in 1..Len(defaulters_df.rows) :
                   defaulters_df.rows[i].CustomerID = all_defaulters[j].CustomerID

\* a student flagged under two grade/section groups and for the opening
\* balance appears once, as 'Initial Fee Not Paid'
C16_Witness ==
    /\ defaulters_df.called
    /\ \E id \in Customers :
           /\ Cardinality(RecordsOf(id)) = 3
           /\ \E j \in RecordsOf(id) : all_defaulters[j].Status = "Opening Balance Not Fully Paid"
           /\ Cardinality({ j \in RecordsOf(id) :
                              all_defaulters[j].Status = "Initial Fee Not Paid" }) = 2
           /\ Cardinality({ i \in 1..Len(defaulters_df.rows) :
                              defaulters_df.rows[i].CustomerID = id }) = 1
           /\ \A i \in 1..Len(defaulters_df.rows) :
                  defaulters_df.rows[i].CustomerID = id
                      => defaulters_df.rows[i].Status = "Initial Fee Not Paid"

-----------------------------------------------------------------------------
(* Properties of a second run                                               *)

\* C17: over the same tables, each school's due columns of a run are among
\* the due columns of a run made with the same or a later today, the overdue
\* set being recomputed by each run
C17_DueColumnsGrow ==
    (prev.called /\ prev.today <= today) =>
        \A k \in 1..Len(summaries) :
            /\ prev.summaries[k].school = summaries[k].school
            /\ Range(prev.summaries[k].due_columns) \subseteq Range(summaries[k].due_columns)

\* between May and July a partially paid Term III invoice falls due and Term I
\* starts: the later run lists both next to the Initial Fee of the earlier run,
\* and the monthly school gains its months
C17_Witness ==
    /\ prev.called /\ pc = "done"
    /\ prev.today = date(2025, 5, 20) /\ today = date(2025, 7, 15)
    /\ \E k \in 1..Len(summaries) :
           /\ summaries[k].school = Global
           /\ prev.summaries[k].due_columns = << "Initial Fee" >>
           /\ summaries[k].due_columns = << "Initial Fee", "Term I", "Term III" >>

-----------------------------------------------------------------------------
(* Properties of a failed run                                               *)

\* C20: a run is all-or-nothing: when a run has failed, on an unreadable input
\* file or on an error raised while a school is processed, no report file of
\* that run exists; the same for the combined report after a failed payments
\* or contacts load
C20_AllOrNothing ==
    /\ pc = "failed" => files = << >>
    /\ (pc \in { "extracted", "saved" } /\ (~payments_file.ok \/ ~contacts_file.ok))
           => files = << >>

-----------------------------------------------------------------------------
(* Properties that relate the combined report to the summaries              *)

\* both reports have been computed over the same files
BothComputed == Len(summaries) = Len(Schools) /\ ob_result.called /\ pc \in { "extracted", "saved" }

HasInitialFeeRecord(c, school) ==
    \E j \in 1..Len(all_defaulters) :
        /\ all_defaulters[j].Status = "Initial Fee Not Paid"
        /\ all_defaulters[j].CustomerID = c
        /\ all_defaulters[j].School = school

OwesInitialFee(c, school) ==
    \E k \in 1..Len(summaries) :
        /\ summaries[k].school = school
        /\ \E i \in 1..Len(summaries[k].rows) :
               /\ summaries[k].rows[i].CustomerID = c
               /\ summaries[k].rows[i].Fees["Initial Fee"] > 0

\* C21: a customer has an 'Initial Fee Not Paid' record for a school exactly
\* when the school's summary has a row of that customer with Initial Fee > 0
C21_InitialFeeSubset ==
    BothComputed =>
        \A c \in Customers, school \in Range(Schools) :
            HasInitialFeeRecord(c, school) <=> OwesInitialFee(c, school)

-----------------------------------------------------------------------------
(* Properties of the grouping and of the join                               *)

\* the overdue-filtered invoices of one (customer id, grade, section) at a
\* school, classified to a period
FilteredOfKey(school, c, g, s, col) ==
    SelectSeq(defaulter_invoices,
              LAMBDA d : /\ d.School = school /\ d.CustomerID = c
                         /\ d.Grade = g /\ d.Section = s
                         /\ extract_fee_type(d.ItemName, school) = col)

\* C22: summary rows are keyed by (customer id, grade, section): no two rows of
\* a summary share the key, every key of the school's overdue-filtered invoices
\* has a row, a row's positive amounts sum its own group's filtered invoices
\* only, and two rows of one student agree on every column in which neither
\* group owes (the paid / not-due decision is made per student)
C22_CompositeKey ==
    \A k \in 1..Len(summaries) :
        LET school == summaries[k].school
            rows == summaries[k].rows
            cols == Range(summaries[k].due_columns)
        IN  /\ \A i, j \in 1..Len(rows) :
                   ( /\ rows[i].CustomerID = rows[j].CustomerID
                     /\ rows[i].Grade = rows[j].Grade
                     /\ rows[i].Section = rows[j].Section ) => i = j
            /\ \A d \in Range(defaulter_invoices) :
                   (d.School = school /\ d.Grade # NaN /\ d.Section # NaN)
                       => \E i \in 1..Len(rows) :
                              /\ rows[i].CustomerID = d.CustomerID
                              /\ rows[i].Grade = d.Grade
                              /\ rows[i].Section = d.Section
            /\ \A i \in 1..Len(rows), col \in cols :
                   rows[i].Fees[col] > 0
                       => rows[i].Fees[col] =
                              SumBalances(FilteredOfKey(school, rows[i].CustomerID,
                                                        rows[i].Grade, rows[i].Section, col))
            /\ \A i, j \in 1..Len(rows), col \in cols :
                   ( /\ rows[i].CustomerID = rows[j].CustomerID
                     /\ rows[i].Fees[col] <= 0
                     /\ rows[j].Fees[col] <= 0 ) => rows[i].Fees[col] = rows[j].Fees[col]

\* one student with two (grade, section) pairs at one school, each owing 5000
C22_Witness ==
    \E k \in 1..Len(summaries) :
        \E i, j \in 1..Len(summaries[k].rows) :
            LET rows == summaries[k].rows
            IN  /\ rows[i].CustomerID = rows[j].CustomerID
                /\ rows[i].Grade # rows[j].Grade
                /\ rows[i].Fees["Initial Fee"] = 5000
                /\ rows[j].Fees["Initial Fee"] = 5000
                /\ rows[i].TotalOutstanding = 5000

\* a customer id that no Contact row carries
NoContact(c) == \A i \in 1..Len(contacts_df) : contacts_df[i].ContactID # c

\* C23: the overdue-filtered invoices of a customer without a Contact row are
\* all kept by process_invoices, once each and in their order, with an empty
\* Student Name and Enrollment No, and the student gets a summary row (with
\* the same empty name) that holds the amounts owed
C23_MissingContactKept ==
    pc \in { "processed", "done" } =>
        \A c \in Customers :
            NoContact(c) =>
                LET kept == SelectSeq(defaulter_invoices, LAMBDA d : d.CustomerID = c)
                    qualifying == SelectSeq(invoices_df,
                                            LAMBDA v : v.CustomerID = c /\ Qualifying(v))
                IN  /\ [ i \in 1..Len(kept) |-> InvoiceCells(kept[i], kept[i].DueDate) ]
                       = [ i \in 1..Len(qualifying) |->
                             InvoiceCells(qualifying[i], to_datetime(qualifying[i].DueDate)) ]
                    /\ \A i \in 1..Len(kept) :
                           kept[i].StudentName = "" /\ kept[i].EnrollmentNo = ""
                    /\ \A k \in 1..Len(summaries), i \in 1..Len(kept) :
                           ( /\ kept[i].School = summaries[k].school
                             /\ kept[i].Grade # NaN /\ kept[i].Section # NaN )
                               => \E j \in 1..Len(summaries[k].rows) :
                                      LET row == summaries[k].rows[j]
                                          col == extract_fee_type(kept[i].ItemName, kept[i].School)
                                          owed == SumBalances(FilteredOfKey(kept[i].School, c, row.Grade,
                                                                            row.Section, col))
                                      IN  /\ row.CustomerID = c
                                          /\ row.Grade = kept[i].Grade
                                          /\ row.Section = kept[i].Section
                                          /\ row.StudentName = "" /\ row.EnrollmentNo = ""
                                          /\ (col \in Range(summaries[k].due_columns) /\ owed > 0)
                                                 => row.Fees[col] = owed

\* a student without a Contact row has a summary row showing 5000 owed, next
\* to contacts that were read
C23_Witness ==
    /\ contacts_df # << >>
    /\ \E k \in 1..Len(summaries) :
           \E j \in 1..Len(summaries[k].rows) :
               LET row == summaries[k].rows[j]
               IN  /\ NoContact(row.CustomerID)
                   /\ row.StudentName = ""
                   /\ row.Fees["Initial Fee"] = 5000
                   /\ row.TotalOutstanding = 5000

-----------------------------------------------------------------------------
(* Properties of invoices that name no fee period                           *)

\* the description is null or holds none of the school's fee names
NoPattern(item_name, school) ==
    \/ item_name = NaN
    \/ school = Global /\ FirstIn(GlobalNames, item_name, 1) = 0
    \/ /\ school = Central
       /\ ~Contains("Initial Academic Fee", item_name)
       /\ FirstIn(MonthPatterns, item_name, 1) = 0

\* the overdue-filtered invoices of a summary row's group that name the period
\* col of the school
NamedOfRow(school, row, col) ==
    SelectSeq(defaulter_invoices,
              LAMBDA d : /\ d.School = school /\ d.CustomerID = row.CustomerID
                         /\ d.Grade = row.Grade /\ d.Section = row.Section
                         /\ ~NoPattern(d.ItemName, school)
                         /\ extract_fee_type(d.ItemName, school) = col)

RECURSIVE SumOwed(_, _, _)
SumOwed(school, row, cols) ==
    IF cols = << >> THEN 0
    ELSE LET owed == SumBalances(NamedOfRow(school, row, Head(cols)))
         IN  (IF owed > 0 THEN owed ELSE 0) + SumOwed(school, row, Tail(cols))

KnownKeys == Range(GlobalKeys) \cup Range(AcademicMonthKeys) \cup { "Initial Fee" }

\* C24: an invoice whose description is null or names no fee period of its
\* school adds nothing to a summary: no due column stands for 'no match', a
\* positive amount of a row sums only invoices that name the column's period,
\* and Total Outstanding is the sum of those amounts
C24_NoMatchExcluded ==
    \A k \in 1..Len(summaries) :
        LET school == summaries[k].school
            cols == summaries[k].due_columns
        IN  /\ Range(cols) \subseteq KnownKeys
            /\ \A i \in 1..Len(summaries[k].rows) :
                   LET row == summaries[k].rows[i]
                   IN  /\ \A col \in Range(cols) :
                              row.Fees[col] > 0
                                  => row.Fees[col] = SumBalances(NamedOfRow(school, row, col))
                       /\ row.TotalOutstanding = SumOwed(school, row, cols)

\* a row whose group owes 5000 for a named period next to 5000 of an invoice
\* that names none: Total Outstanding is 5000
C24_Witness ==
    \E k \in 1..Len(summaries) :
        \E i \in 1..Len(summaries[k].rows) :
            LET row == summaries[k].rows[i]
                school == summaries[k].school
            IN  /\ row.TotalOutstanding = 5000
                /\ \E d \in Range(defaulter_invoices) :
                       /\ d.School = school /\ d.CustomerID = row.CustomerID
                       /\ d.Grade = row.Grade /\ d.Section = row.Section
                       /\ NoPattern(d.ItemName, school)
                       /\ d.Balance = 5000

-----------------------------------------------------------------------------
(* Properties that relate the month walk, the calendar and the classifier   *)

\* first day of the i-th month of the walk
MonthStart(i) ==
    date(month_mapping(excel_central_months[i])[2], month_mapping(excel_central_months[i])[1], 1)

\* the months whose first day today has reached, each month checked on its own
MonthsReached == { i \in 1..Len(excel_central_months) : today >= MonthStart(i) }

CanonicalNames(school) ==
    IF school = Global THEN Range(GlobalNames)
    ELSE { "Initial Academic Fee" } \cup Range(MonthPatterns)

\* C26: the key get_due_fees_columns builds for a month is the key
\* extract_fee_type returns for '<month> Monthly Fee', for all ten months, and
\* every column the resolver returns, for either school, is the key of one of
\* the school's fee descriptions
C26_KeysAgree ==
    /\ cal.school = Central =>
         \A i \in 2..Len(cal.columns) :
             \E m \in Range(excel_central_months) :
                 /\ cal.columns[i] = extract_fee_type(m \o " Monthly Fee", Central)
                 /\ today >= date(month_mapping(m)[2], month_mapping(m)[1], 1)
    /\ cal.school \in Range(Schools) =>
         \A i \in 1..Len(cal.columns) :
             \E name \in CanonicalNames(cal.school) :
                 extract_fee_type(name, cal.school) = cal.columns[i]

\* all ten months are listed and the last column is the key of 'March Monthly Fee'
C26_Witness ==
    /\ cal.school = Central
    /\ Len(cal.columns) = 11
    /\ cal.columns[11] = "Mar-2026"
    /\ extract_fee_type("March Monthly Fee", Central) = cal.columns[11]

-----------------------------------------------------------------------------
(* Properties of the stored values and of the two exported renderings       *)

RECURSIVE SumDisplayed(_, _)
SumDisplayed(row, cols) ==
    IF cols = << >> THEN 0 ELSE row.Fees[Head(cols)] + SumDisplayed(row, Tail(cols))

\* the exported files of one kind
FilesOfKind(kind) == SelectSeq(files, LAMBDA f : f.path[1] = kind)

\* C27: a due column of a summary row holds a value > 0, 0 or -1 and no other
\* negative value; in every accounts file Total Outstanding is the sum of the
\* row's displayed amounts; and a column of a teacher file reads 'Unpaid'
\* exactly when the same column of the same row of the accounts file is > 0
C27_ThreeValues ==
    /\ \A cell \in Cells : CellValue(cell) >= 0 - 1
    /\ \A f \in Range(FilesOfKind("accounts")) :
           \A i \in 1..Len(f.rows) :
               f.rows[i].TotalOutstanding = SumDisplayed(f.rows[i], f.due_columns)
    /\ \A t \in Range(FilesOfKind("teachers")), a \in Range(FilesOfKind("accounts")) :
           Tail(t.path) = Tail(a.path) =>
               /\ Len(t.rows) = Len(a.rows)
               /\ t.due_columns = a.due_columns
               /\ \A i \in 1..Len(t.rows), col \in Range(t.due_columns) :
                      t.rows[i].Fees[col] = "Unpaid" <=> a.rows[i].Fees[col] > 0

\* a group whose initial fee invoices sum to a negative balance has 0 in that
\* column, and its exported row owes 5000 for another period
C27_Witness ==
    /\ \E cell \in Cells :
           /\ SumBalances(FilteredOfCell(cell)) < 0
           /\ CellValue(cell) = 0
    /\ \E t \in Range(FilesOfKind("teachers")), a \in Range(FilesOfKind("accounts")) :
           /\ Tail(t.path) = Tail(a.path)
           /\ \E i \in 1..Len(a.rows), col \in Range(a.due_columns) :
                  /\ a.rows[i].TotalOutstanding = 5000
                  /\ a.rows[i].Fees[col] = 5000
                  /\ t.rows[i].Fees[col] = "Unpaid"

\* the invoices that pass the status / due-date filter, of one group and period
QualifyingOfKey(school, c, g, s, col) ==
    SelectSeq(invoices_df,
              LAMBDA v : /\ Qualifying(v)
                         /\ v.School = school /\ v.CustomerID = c
                         /\ v.Grade = g /\ v.Section = s
                         /\ extract_fee_type(v.ItemName, school) = col)

-----------------------------------------------------------------------------
(* Properties of the order in which the combined report collects            *)

\* where a record stands in the order of collection
CollectionRank(r) ==
    IF r.Status = "Initial Fee Not Paid"
    THEN (IF r.School = Global THEN 1 ELSE IF r.School = Central THEN 2 ELSE 3)
    ELSE 4

BothFlagged(c) ==
    /\ \E j \in RecordsOf(c) : all_defaulters[j].Status = "Initial Fee Not Paid"
    /\ \E j \in RecordsOf(c) : all_defaulters[j].Status = "Opening Balance Not Fully Paid"

\* C29: the records are collected as 'Initial Fee Not Paid' of Excel Global
\* School, then of Excel Central School, then the opening balance records; a
\* student flagged by both rules is reported once, as 'Initial Fee Not Paid'
\* with the three opening balance amounts 0, while the reconciler found a
\* positive remaining opening balance for the student
C29_InitialFeeRecordWins ==
    defaulters_df.called =>
        /\ \A i, j \in 1..Len(all_defaulters) :
               i < j => CollectionRank(all_defaulters[i]) <= CollectionRank(all_defaulters[j])
        /\ \A j \in 1..Len(all_defaulters) : CollectionRank(all_defaulters[j]) # 3
        /\ \A c \in Customers :
               BothFlagged(c) =>
                   /\ \E i \in 1..Len(defaulters_df.rows) : defaulters_df.rows[i].CustomerID = c
                   /\ \A i \in 1..Len(defaulters_df.rows) :
                          defaulters_df.rows[i].CustomerID = c
                              => /\ defaulters_df.rows[i].Status = "Initial Fee Not Paid"
                                 /\ defaulters_df.rows[i].OpeningBalance = 0
                                 /\ defaulters_df.rows[i].TotalPaidOpeningBalance = 0
                                 /\ defaulters_df.rows[i].RemainingOpeningBalance = 0
                   /\ \E k \in 1..Len(ob_result.rows) :
                          /\ ob_result.rows[k].ContactID = c
                          /\ ob_result.rows[k].RemainingOpeningBalance > 0

\* a student who owes 6000 of a 10000 opening balance and the initial fee of
\* Excel Central School is reported with a remaining opening balance of 0
C29_Witness ==
    /\ defaulters_df.called
    /\ \E c \in Customers :
           /\ BothFlagged(c)
           /\ \E k \in 1..Len(ob_result.rows) :
                  /\ ob_result.rows[k].ContactID = c
                  /\ ob_result.rows[k].RemainingOpeningBalance = 6000
           /\ \E i \in 1..Len(defaulters_df.rows) :
                  /\ defaulters_df.rows[i].CustomerID = c
                  /\ defaulters_df.rows[i].School = Central
                  /\ defaulters_df.rows[i].Status = "Initial Fee Not Paid"
                  /\ defaulters_df.rows[i].RemainingOpeningBalance = 0

-----------------------------------------------------------------------------
(* Properties of the calls on a fresh InitialFeeDefaulterExtractor          *)

\* both loads have returned True on this extractor
BothLoadsSucceeded ==
    /\ opening_balance_payments # << >>
    /\ contacts_balance_df # << >>
    /\ ContactsLoadSucceeds

\* C30: identify_opening_balance_defaulters returns an empty result and does
\* not raise unless both loads have succeeded; a load that fails leaves the
\* loaded tables as they were; and extract_initial_fee_defaulters returns an
\* empty result without reading the invoices when a load fails
C30_GuardedCalls ==
    /\ [][ /\ (ob_result' # ob_result /\ ~BothLoadsSucceeded)
                => (ob_result'.rows = << >> /\ ~ob_result'.raised)
           /\ contacts_balance_df' # contacts_balance_df => ContactsLoadSucceeds
           /\ opening_balance_payments' # opening_balance_payments => payments_file.ok
         ]_vars
    /\ [](( /\ defaulters_df.called
            /\ ~(payments_file.ok /\ ContactsLoadSucceeds) )
              => /\ defaulters_df.rows = << >>
                 /\ invoices_df = << >>
                 /\ pc \in { "extracted", "saved" })

====
